---------------------------- MODULE Spec2Model ----------------------------
(***************************************************************************)
(* Data layer of khalilvb06/ecom: the two-tier cache (js/utils/cache.js),  *)
(* the error sink (js/utils/errors.js), the read-through / retry           *)
(* orchestrator with its write queue (js/services/supabase-service.js) and *)
(* the state store (unnamed/part_002, StateService).                       *)
(*                                                                         *)
(* JavaScript values are modelled as strings: "null" and "undefined" are   *)
(* the two nullish values, "0" stands for the falsy non-nullish values     *)
(* (0, "", false), every other string is a truthy value.  Durations and    *)
(* timestamps are integers; the cache's clock is Date.now().               *)
(***************************************************************************)
EXTENDS Integers, Sequences, FiniteSets, TLC

(***************************************************************************)
(* Bounds of the model.                                                    *)
(***************************************************************************)
\* capacity of the fast tier; 50 in cache.js:5, scaled down
maxMemorySize == 2
\* the clock runs over 0..MaxTime
MaxTime == 2
\* the ttl values a caller passes are 0..MaxTTL
MaxTTL == 1
\* age (in clock units) beyond which cleanup() sweeps the durable tier;
\* 86400000 ms in cache.js:196, scaled down
sweepHorizon == 1
\* the retry budgets a caller passes are 0..MaxRetries
MaxRetries == 3
\* requests passed to queueRequest
MaxRequests == 3
\* part_002:29 (50 in the source): StateService.maxHistorySize
maxHistorySize == 2
\* part_002:276 (86400000 ms in the source): the age, in ticks of the clock,
\* beyond which a persisted snapshot is rejected
maxSnapshotAge == 1
\* callbacks registered with the state store: subscribers and middleware
MaxObservers == 2

(***************************************************************************)
(* Program constants.                                                      *)
(***************************************************************************)
retryAttempts == 3
retryDelay == 1000
\* supabase-service.js:145: the retries of createOrder
createOrderRetries == 5

Keys == {"products_all", "product_1", "store_settings"}
\* keys used on the durable tier
DBKeys == {"products_all"}
\* truthy payloads
Values == {"v1", "v2"}
\* payloads a remote operation may return as data
Falsy == {"null", "undefined", "0"}
TTLs == 0..MaxTTL

Truthy(v) == v \notin Falsy

NoKey == "null"
NoItem == [key |-> NoKey, value |-> "undefined", timestamp |-> 0, ttl |-> 0]
Item(k, v, t, ttl) == [key |-> k, value |-> v, timestamp |-> t, ttl |-> ttl]

VARIABLES
  memoryCache,   \* CacheManager.memoryCache: the Map, as the sequence of its
                 \* entries in Map iteration (insertion) order
  db,            \* the IndexedDB object store 'cache', by key
  dbStatus,      \* "opening" | "open" | "none": this.db is set only when "open"
  capacity,      \* CacheManager.maxMemorySize
  now,           \* Date.now()
  last,          \* history: the last cache operation, what it found and returned
  insOrder,      \* history: keys of the fast tier, in the order they entered it
  fifoLog,       \* history: the sets the cache's callers made since the fast
                 \* tier was last empty
  pc,            \* where the execute call in flight stands
  call,          \* its arguments: cacheKey and options
  attempt,       \* its loop counter
  lastError,     \* its lastError
  result,        \* how it settled: the value returned, or the rejection
  calls,         \* history: invocations of queryFn by this call
  delays,        \* history: the delay(ms) this call asked for, in order
  fails,         \* history: attempts of this call that failed
  reports,       \* history: errorHandler.handleError calls made by this call
  cacheWrite,    \* history: the cacheManager.set this call made, if any,
                 \* whether the tier held the entry after it (stored) and
                 \* whether it left both tiers as they were (untouched)
  prior,         \* history: the last successful read-through, by key and tier
  requestQueue,  \* SupabaseService.requestQueue: the requests waiting, in order
  processing,    \* SupabaseService.processing
  loops,         \* the processQueue calls that are inside their while loop: the
                 \* request each took and the await it stands at
  requests,      \* history: per request passed to queueRequest, what was done
                 \* with its function and with its promise
  settleOrder,   \* history: the requests in the order their promises settled
  writeCalls,    \* the calls of createOrder / updateProduct in flight
  state,         \* StateService.state: the document, by top-level slot
  subscribers,   \* StateService.subscribers: per slot, the callbacks in
                 \* registration order
  middleware,    \* StateService.middleware
  history,       \* StateService.history
  storeLast,     \* history: the last call on the state store, its arguments,
                 \* the observers it invoked and how it ended
  localStorage   \* the item saveToStorage writes under 'app-state'

cacheVars == <<memoryCache, db, dbStatus, capacity, now>>
cacheHist == <<last, insOrder, fifoLog>>
execVars == <<pc, call, attempt, lastError, result, calls, delays, fails, reports, cacheWrite>>
queueVars == <<requestQueue, processing, loops, requests, settleOrder, writeCalls>>
storeVars == <<state, subscribers, middleware, history, storeLast, localStorage>>
outsideCache == <<queueVars, storeVars>>
vars == <<cacheVars, cacheHist, execVars, prior, queueVars, storeVars>>

(***************************************************************************)
(* JavaScript Map: get / has / set / delete / keys, insertion-ordered.     *)
(* Map.set of a key already present keeps the key's position.              *)
(***************************************************************************)
MapKeys(mc) == [i \in 1..Len(mc) |-> mc[i].key]
MapHas(mc, k) == \E i \in 1..Len(mc) : mc[i].key = k
MapGet(mc, k) ==
  IF MapHas(mc, k) THEN mc[CHOOSE i \in 1..Len(mc) : mc[i].key = k] ELSE NoItem
MapSet(mc, e) ==
  IF MapHas(mc, e.key)
    THEN [i \in 1..Len(mc) |-> IF mc[i].key = e.key THEN e ELSE mc[i]]
    ELSE Append(mc, e)
MapDelete(mc, k) == SelectSeq(mc, LAMBDA e : e.key # k)
FirstKey(mc) == IF Len(mc) > 0 THEN mc[1].key ELSE NoKey

(***************************************************************************)
(* cache.js:63, 112, 185: the expiry test, Date.now() - timestamp > ttl.   *)
(***************************************************************************)
ExpiredGE(item, t) == t - item.timestamp >= item.ttl
Expired(item, t) == t - item.timestamp > item.ttl

(***************************************************************************)
(* cache.js:46-50: setMemory's eviction, the first key of the Map when the *)
(* Map holds maxMemorySize entries or more.                                *)
(***************************************************************************)
EvictsGT(mc) == Len(mc) > capacity
Evicts(mc) == Len(mc) >= capacity

VictimLast(mc) == IF Len(mc) > 0 THEN mc[Len(mc)].key ELSE NoKey
Victim(mc) == FirstKey(mc)

\* the key setMemory deletes before it inserts, NoKey when it deletes none
EvictedKey(mc) == IF Evicts(mc) THEN Victim(mc) ELSE NoKey
AfterEviction(mc) == MapDelete(mc, EvictedKey(mc))

\* cache.js:45-57
SetMemoryCache(mc, key, value, ttl, t) ==
  MapSet(AfterEviction(mc), Item(key, value, t, ttl))

\* cache.js:59-69: the Map after getMemory, and what getMemory returns
GetMemoryTouch(mc, key, t) ==
  LET item == MapGet(mc, key) IN
  IF item = NoItem THEN mc
  ELSE IF Expired(item, t) THEN MapDelete(mc, key)
  ELSE Append(MapDelete(mc, key), item)
GetMemoryCache(mc, key, t) ==
  LET item == MapGet(mc, key) IN
  IF item # NoItem /\ Expired(item, t) THEN MapDelete(mc, key) ELSE mc
GetMemoryValue(mc, key, t) ==
  LET item == MapGet(mc, key) IN
  IF item = NoItem THEN "null"
  ELSE IF Expired(item, t) THEN "null"
  ELSE item.value

(***************************************************************************)
(* The durable tier.  Every IndexedDB request may fail (request.onerror);  *)
(* ok says whether it succeeded.                                           *)
(***************************************************************************)
\* cache.js:72-95
SetDBStore(d, status, key, value, ttl, t, ok) ==
  IF status = "open" /\ ok THEN [d EXCEPT ![key] = Item(key, value, t, ttl)] ELSE d
SetDBValue(status, ok) == IF status = "open" /\ ok THEN "true" ELSE "false"

\* cache.js:124-139
DeleteDBStore(d, status, key, ok) ==
  IF status = "open" /\ ok THEN [d EXCEPT ![key] = NoItem] ELSE d

\* cache.js:97-122
GetDBStore(d, status, key, t, okGet, okDel) ==
  IF status = "open" /\ okGet /\ d[key] # NoItem /\ Expired(d[key], t)
    THEN DeleteDBStore(d, status, key, okDel)
    ELSE d
GetDBValueUnguarded(d, status, key, t, okGet) ==
  IF d[key] = NoItem THEN "null"
  ELSE IF Expired(d[key], t) THEN "null"
  ELSE d[key].value
GetDBValue(d, status, key, t, okGet) ==
  IF status # "open" \/ ~okGet THEN "null"
  ELSE IF d[key] = NoItem THEN "null"
  ELSE IF Expired(d[key], t) THEN "null"
  ELSE d[key].value

\* cache.js:182-188: cleanup() on the fast tier
CleanupMemory(mc, t) == SelectSeq(mc, LAMBDA e : ~Expired(e, t))
\* cache.js:190-209: cleanup() on the durable tier, the cursor over
\* IDBKeyRange.upperBound(Date.now() - 86400000) of the timestamp index
CleanupDBOlder(d, status, t, ok) ==
  IF status = "open" /\ ok
    THEN [k \in DOMAIN d |->
            IF d[k] # NoItem /\ d[k].timestamp < t - sweepHorizon THEN NoItem ELSE d[k]]
    ELSE d
CleanupDB(d, status, t, ok) ==
  IF status = "open" /\ ok
    THEN [k \in DOMAIN d |->
            IF d[k] # NoItem /\ d[k].timestamp <= t - sweepHorizon THEN NoItem ELSE d[k]]
    ELSE d
\* cache.js:163-179
ClearDB(d, status, ok) ==
  IF status = "open" /\ ok THEN [k \in DOMAIN d |-> NoItem] ELSE d


(***************************************************************************)
(* Errors and results.  An error value is null (kind "null") or an Error   *)
(* object with its message; a result is the object execute resolves to, or *)
(* the rejection of its promise.                                           *)
(***************************************************************************)
NoError == [kind |-> "null", message |-> ""]
Err(m) == [kind |-> "Error", message |-> m]
\* new Error(message): an undefined message gives the empty message
NewError(m) == Err(IF m = "undefined" THEN "" ELSE m)

Pending ==
  [settled |-> "pending", data |-> "undefined", error |-> NoError,
   fromCache |-> "undefined", errorInfo |-> FALSE]
Resolved(data, error, fromCache, errorInfo) ==
  [settled |-> "resolved", data |-> data, error |-> error,
   fromCache |-> fromCache, errorInfo |-> errorInfo]
Rejected(error) ==
  [settled |-> "rejected", data |-> "undefined", error |-> error,
   fromCache |-> "undefined", errorInfo |-> FALSE]

(***************************************************************************)
(* What queryFn may do on one invocation.                                  *)
(***************************************************************************)
\* the data of a result: a truthy payload, 0 / "" / false, or null
RemoteData == {"v2", "0", "null"}
Outcomes ==
     \* resolves to { data, error: null }
     [kind : {"result"}, data : RemoteData, message : {"none"}]
     \* resolves to { data: null, error: { message } }, the message may be missing
\cup [kind : {"result"}, data : {"null"}, message : {"boom", "undefined"}]
     \* throws or rejects with an Error, or with null / undefined
\cup [kind : {"throw"}, data : {"undefined"}, message : {"boom", "nullish"}]
     \* resolves to undefined
\cup [kind : {"undefined"}, data : {"undefined"}, message : {"none"}]

\* supabase-service.js:36-40: what the try block throws before it reaches the
\* cache, NoError when it throws nothing.  Reading .error of undefined is a
\* TypeError.
AttemptError(o) ==
  IF o.kind = "throw" THEN (IF o.message = "nullish" THEN NoError ELSE Err(o.message))
  ELSE IF o.kind = "undefined" THEN Err("typeerror")
  ELSE IF o.message # "none" THEN NewError(o.message)
  ELSE NoError
AttemptThrows(o) == o.kind # "result" \/ o.message # "none"

\* supabase-service.js:50: the result of a successful attempt is returned as
\* queryFn produced it
AttemptResultTagged(o) == Resolved(o.data, NoError, "false", FALSE)
AttemptResult(o) == Resolved(o.data, NoError, "undefined", FALSE)

\* supabase-service.js:43
CacheableAny(useCache, cacheKey, data) == useCache /\ cacheKey # NoKey
Cacheable(useCache, cacheKey, data) == useCache /\ cacheKey # NoKey /\ Truthy(data)

\* supabase-service.js:24
LooksUpAnyKey(useCache, cacheKey) == cacheKey # NoKey
LooksUp(useCache, cacheKey) == useCache /\ cacheKey # NoKey

\* supabase-service.js:26
Hits(looks, cached) == looks /\ Truthy(cached)

\* supabase-service.js:26-28
CacheHitUntagged(cached) == Resolved(cached, NoError, "undefined", FALSE)
CacheHit(cached) == Resolved(cached, NoError, "true", FALSE)

\* supabase-service.js:53: the catch block reads error.message, a TypeError
\* when the value caught is null or undefined
CatchThrows(error) == error.kind = "null"

\* supabase-service.js:55
RetriesAfter(att, retries) == att < retries

\* supabase-service.js:56
Backoff(att) == retryDelay * att

\* errors.js:47-51: isCriticalError calls toLowerCase on
\* (error?.message || error || ''), which is the Error object itself when its
\* message is empty: a TypeError
IsCriticalErrorThrows(error) == error.kind = "Error" /\ error.message = ""

\* errors.js:20-45 and supabase-service.js:62-68: the error sink is told, then
\* execute returns { data: null, error: lastError, errorInfo }
Exhausted(error) ==
  IF IsCriticalErrorThrows(error) THEN Rejected(Err("typeerror"))
  ELSE Resolved("null", error, "undefined", TRUE)

NoCall ==
  [cacheKey |-> NoKey, useCache |-> FALSE, useDB |-> FALSE, cacheTTL |-> 0,
   retries |-> 0, expect |-> "none", expectStored |-> "none",
   cached |-> "null", degraded |-> FALSE]
NoWrite ==
  [called |-> FALSE, key |-> NoKey, value |-> "undefined", ttl |-> 0,
   useDB |-> FALSE, ret |-> "undefined", stored |-> FALSE, untouched |-> TRUE,
   degraded |-> FALSE]
NoPrior ==
  [key |-> NoKey, useDB |-> FALSE, data |-> "undefined", ttl |-> 0, at |-> 0,
   intact |-> FALSE, durable |-> FALSE]

\* the entry a tier holds for a key
EntryOf(mc, d, key, useDB) ==
  IF key = NoKey THEN NoItem ELSE IF useDB THEN d[key] ELSE MapGet(mc, key)

\* history: the read-through recorded stays intact while its tier's entry for
\* its key is not touched
PriorKeep ==
  prior' = [prior EXCEPT !.intact =
              @ /\ EntryOf(memoryCache', db', prior.key, prior.useDB)
                   = EntryOf(memoryCache, db, prior.key, prior.useDB)]

(***************************************************************************)
(* supabase-service.js:196-211: invalidateCache(pattern).                  *)
(***************************************************************************)
Patterns == {"products", "categories", "settings"}
\* the keys of the model that start with 'product_'
ProductKeys == {"product_1"}
\* supabase-service.js:198, 207, 209: the aggregate key of a pattern
AggregateKey(pattern) ==
  IF pattern = "products" THEN "products_all"
  ELSE IF pattern = "categories" THEN "categories_all"
  ELSE IF pattern = "settings" THEN "store_settings"
  ELSE NoKey
\* supabase-service.js:200-201: the prefix family of a pattern
PrefixFamily(pattern) == IF pattern = "products" THEN ProductKeys ELSE {}
\* the aggregate key is read with cacheManager.get on the fast tier; the keys
\* of the prefix family are deleted from the Map
InvalidateMemory(mc, pattern, t) ==
  IF pattern \in Patterns
    THEN SelectSeq(GetMemoryCache(mc, AggregateKey(pattern), t),
                   LAMBDA e : e.key \notin PrefixFamily(pattern))
    ELSE mc

(***************************************************************************)
(* The write queue, supabase-service.js:166-193, and the public write      *)
(* operations, supabase-service.js:141-163.                                *)
(***************************************************************************)
\* history of one request: whether queueRequest was called with it, how often
\* its function was invoked and what that invocation did ("pending" while it
\* has not settled), how often resolve / reject was called, the state of the
\* promise queueRequest returned, how many promises had settled when it was
\* submitted and where the drain loop stood then ("none": no loop active)
NoRequest ==
  [submitted |-> FALSE, invoked |-> 0, fn |-> "none", settled |-> 0,
   promise |-> "pending", settledBefore |-> 0, during |-> "none"]

\* requestFn() returns a promise, or throws before it returns
Invocations == {"pending", "throws"}

\* supabase-service.js:174: processQueue returns at once
BusyEmptyOnly(isProcessing, queue) == Len(queue) = 0
Busy(isProcessing, queue) == isProcessing \/ Len(queue) = 0

\* supabase-service.js:178: the condition of the while loop, evaluated again
\* after every delay
RemainingNever(queue) == FALSE
Remaining(queue) == Len(queue) > 0

\* supabase-service.js:179: requestQueue.shift()
Pop(queue) == [item |-> queue[Len(queue)], rest |-> SubSeq(queue, 1, Len(queue) - 1)]
Peek(queue) == [item |-> Head(queue), rest |-> queue]
Shift(queue) == [item |-> Head(queue), rest |-> Tail(queue)]

\* supabase-service.js:181-186: resolve(result) or reject(error)
Settlement(ok) == IF ok THEN "resolved" ELSE "rejected"

\* a promise settles once; later calls of resolve / reject change nothing
Settle(promise, ok) == IF promise = "pending" THEN Settlement(ok) ELSE promise

\* supabase-service.js:182: requestFn() is invoked; when it throws the catch
\* block rejects at once
InvokedRequests(reqs, r, inv) ==
  [reqs EXCEPT ![r].invoked = @ + 1,
               ![r].fn = IF inv = "throws" THEN "failed" ELSE "pending",
               ![r].settled = IF inv = "throws" THEN @ + 1 ELSE @,
               ![r].promise = IF inv = "throws" THEN Settle(@, FALSE) ELSE @]
InvokedOrder(order, r, inv) == IF inv = "throws" THEN Append(order, r) ELSE order
\* the await the loop stands at after the invocation
InvokedAt(inv) == IF inv = "throws" THEN "delay" ELSE "request"

\* supabase-service.js:141-163
Writers == {"createOrder", "updateProduct"}
NoWriteCall == [pc |-> "idle", attempt |-> 0, result |-> Pending]
\* supabase-service.js:145, and 153 with 20
WriteRetries(w) == IF w = "createOrder" THEN createOrderRetries ELSE retryAttempts
\* what the remote insert / update may do
WriteOutcomes == {o \in Outcomes : o.data # "0" /\ o.kind # "undefined"}

(***************************************************************************)
(* The state store, unnamed/part_002 (StateService).                       *)
(*                                                                         *)
(* A value is a primitive or an object; c is its content.  Two primitives  *)
(* are === when their contents are equal, two objects when they are the    *)
(* same reference.  deepClone gives an object of equal content and a new   *)
(* reference, so the document and the snapshots are kept by content; a     *)
(* value passed to setState says whether it is the very reference the slot *)
(* holds (same) or any other object or primitive.                          *)
(***************************************************************************)
Prim(c) == [obj |-> FALSE, c |-> c]
Obj(c) == [obj |-> TRUE, c |-> c]

\* part_002:6-24: four of the slots, in the order of the constructor.  The
\* content of an object is written as its literal; ui stands for its loading
\* flag.
SlotOrder == <<"currentUser", "cart", "filters", "ui">>
SlotSet == {SlotOrder[i] : i \in 1..Len(SlotOrder)}
InitialState ==
  [currentUser |-> Prim("null"), cart |-> Obj("[]"), filters |-> Obj("{}"),
   ui |-> Obj("{loading:false}")]
\* the slots the callers of setState write, and the values they give a slot
StoreSlots == <<"currentUser", "cart">>
SlotValues(slot) ==
  IF slot = "cart" THEN {Obj("[]")} ELSE {Prim("null"), Prim("user")}

\* what a callback does when invoked: it returns, it throws an Error with a
\* message, or it throws an Error without one
Behaviours == {"returns", "throws", "throwsBare"}
Thrown(b) == IF b = "throws" THEN Err("boom") ELSE IF b = "throwsBare" THEN Err("") ELSE NoError

\* part_002:53-57 and 80-84 with errors.js:20-45: the catch block hands the
\* error to errorHandler.handleError, which itself throws when isCriticalError
\* does; that exception leaves the forEach
HandlerThrows(b) == b # "returns" /\ IsCriticalErrorThrows(Thrown(b))

\* the callbacks a forEach invokes: all of them, or those up to the first one
\* whose exception escapes
FirstEscape(obs) ==
  IF \E i \in 1..Len(obs) : HandlerThrows(obs[i])
    THEN CHOOSE i \in 1..Len(obs) :
           HandlerThrows(obs[i]) /\ \A j \in 1..(i - 1) : ~HandlerThrows(obs[j])
    ELSE 0
Invoked(obs) == IF FirstEscape(obs) = 0 THEN obs ELSE SubSeq(obs, 1, FirstEscape(obs))
Escapes(obs) == FirstEscape(obs) # 0

\* part_002:69: this.state[key] !== value
NotIdenticalAlways(cur, e) == TRUE
NotIdentical(cur, e) ==
  IF e.value.obj THEN ~e.same ELSE (cur.obj \/ cur.c # e.value.c)

\* part_002:65-76: the changes map, in the order of Object.entries(updates)
ChangesOf(doc, updates) ==
  LET changed == SelectSeq(updates, LAMBDA e : NotIdentical(doc[e.key], e)) IN
  [i \in 1..Len(changed) |->
     [key |-> changed[i].key, old |-> doc[changed[i].key], new |-> changed[i].value]]
\* part_002:74: the document after the changed keys were written
Committed(doc, changes) ==
  [k \in DOMAIN doc |->
     IF \E i \in 1..Len(changes) : changes[i].key = k
       THEN changes[CHOOSE i \in 1..Len(changes) : changes[i].key = k].new
       ELSE doc[k]]

\* first index of x in a sequence, as indexOf; 0 when absent
IndexOf(seq, x) ==
  IF \E i \in 1..Len(seq) : seq[i] = x
    THEN CHOOSE i \in 1..Len(seq) : seq[i] = x /\ \A j \in 1..(i - 1) : seq[j] # x
    ELSE 0
\* splice(index, 1)
Splice(seq, index) ==
  [j \in 1..(Len(seq) - 1) |-> IF j < index THEN seq[j] ELSE seq[j + 1]]

\* part_002:41-46: a callback that calls the function subscribe returned to
\* it removes the first occurrence of itself from the array of its key
Unsubscribing(cb) == cb = "unsubscribes"
AfterCallback(arr, cb) ==
  IF Unsubscribing(cb) /\ IndexOf(arr, cb) > 0 THEN Splice(arr, IndexOf(arr, cb)) ELSE arr
\* part_002:52-58: the callbacks forEach visits from index i on: it reads the
\* array as it is at each index, after the splices the callbacks made
RECURSIVE Visited(_, _)
Visited(arr, i) ==
  IF i > Len(arr) THEN <<>>
  ELSE <<arr[i]>> \o Visited(AfterCallback(arr, arr[i]), i + 1)

\* part_002:50-60: the calls notify(key, newValue, oldValue) makes; seen is
\* the document and entries the length of the history at the time of the call
NotifyCalls(subs, key, newValue, oldValue, seen, entries) ==
  [i \in 1..Len(Visited(subs[key], 1)) |->
     [key |-> key, cb |-> Visited(subs[key], 1)[i], new |-> newValue, old |-> oldValue,
      seen |-> seen, entries |-> entries]]
\* the subscribers after the calls made
RECURSIVE SubscribersAfter(_, _)
SubscribersAfter(subs, made) ==
  IF made = <<>> THEN subs
  ELSE SubscribersAfter([subs EXCEPT ![Head(made).key] = AfterCallback(@, Head(made).cb)],
                        Tail(made))
\* part_002:88-90: the calls due for a changes map
RECURSIVE DueCalls(_, _, _, _)
DueCalls(subs, changes, seen, entries) ==
  IF changes = <<>> THEN <<>>
  ELSE NotifyCalls(subs, Head(changes).key, Head(changes).new, Head(changes).old,
                   seen, entries)
       \o DueCalls(subs, Tail(changes), seen, entries)
\* part_002:168-170: the calls undo makes, one notify per key of the document
RECURSIVE RestoreCallsChanged(_, _, _, _, _)
RestoreCallsChanged(subs, keys, doc, oldDoc, entries) ==
  IF keys = <<>> THEN <<>>
  ELSE (IF doc[Head(keys)] = oldDoc[Head(keys)] THEN <<>>
        ELSE NotifyCalls(subs, Head(keys), doc[Head(keys)], oldDoc[Head(keys)],
                         doc, entries))
       \o RestoreCallsChanged(subs, Tail(keys), doc, oldDoc, entries)
RECURSIVE RestoreCalls(_, _, _, _, _)
RestoreCalls(subs, keys, doc, oldDoc, entries) ==
  IF keys = <<>> THEN <<>>
  ELSE NotifyCalls(subs, Head(keys), doc[Head(keys)], oldDoc[Head(keys)], doc, entries)
       \o RestoreCalls(subs, Tail(keys), doc, oldDoc, entries)
\* the callbacks of a sequence of calls
Callbacks(cs) == [i \in 1..Len(cs) |-> cs[i].cb]
\* the calls made: those due, up to the first whose exception escapes
MadeCalls(cs) ==
  IF FirstEscape(Callbacks(cs)) = 0 THEN cs ELSE SubSeq(cs, 1, FirstEscape(Callbacks(cs)))

\* part_002:145-157
HistoryEntry(oldState, newState) == [oldState |-> oldState, newState |-> newState]
SaveToHistory(hist, oldState, newState) ==
  LET pushed == Append(hist, HistoryEntry(oldState, newState)) IN
  IF Len(pushed) > maxHistorySize THEN Tail(pushed) ELSE pushed

\* part_002:78-90: the observers setState invokes, in the order it invokes
\* them, each with the document it finds in this.state
ObserverOrderSubscribersFirst(ran, made, seen) ==
  [i \in 1..Len(made) |-> [kind |-> "subscriber", cb |-> made[i].cb, seen |-> seen]]
  \o [i \in 1..Len(ran) |-> [kind |-> "middleware", cb |-> ran[i], seen |-> seen]]
ObserverOrder(ran, made, seen) ==
  [i \in 1..Len(ran) |-> [kind |-> "middleware", cb |-> ran[i], seen |-> seen]]
  \o [i \in 1..Len(made) |-> [kind |-> "subscriber", cb |-> made[i].cb, seen |-> seen]]

\* a subscriber that calls setState({ cart: [] }) from inside its callback
Reentrant(cb) == cb = "setsCart"
ReentrantUpdates == <<[key |-> "cart", value |-> Obj("[]"), same |-> FALSE]>>

\* part_002:63-96: setState(updates): the document, the history, the
\* middleware invoked (ran), the subscriber calls made (notified) and whether
\* an exception left setState (threw).  The callbacks run between the commit
\* (74) and saveToHistory (93): a callback that calls setState again runs that
\* whole inner call, its own saveToHistory included, before the outer call
\* reaches line 93, and the outer call then snapshots this.state as it is by
\* then.  The seen field of a call is the document this call committed.
RECURSIVE SetStateOutcome(_, _, _, _, _)
\* part_002:88-90: the document and the history after the calls made, each
\* re-entrant one having run its inner setState
RECURSIVE Reentered(_, _, _, _, _)
Reentered(doc, subs, mws, hist, made) ==
  IF made = <<>> THEN [state |-> doc, history |-> hist]
  ELSE IF Reentrant(Head(made).cb)
    THEN LET inner == SetStateOutcome(doc, subs, mws, hist, ReentrantUpdates) IN
         Reentered(inner.state, subs, mws, inner.history, Tail(made))
    ELSE Reentered(doc, subs, mws, hist, Tail(made))
SetStateOutcome(doc, subs, mws, hist, updates) ==
  LET changes == ChangesOf(doc, updates)
      newDoc == Committed(doc, changes)
      due == DueCalls(subs, changes, newDoc, Len(hist))
      mwEscapes == Escapes(mws)
      subEscapes == Escapes(Callbacks(due))
      made == IF mwEscapes THEN <<>> ELSE MadeCalls(due)
      after == Reentered(newDoc, subs, mws, hist, made)
  IN
  [state |-> after.state,
   ran |-> Invoked(mws),
   notified |-> made,
   order |-> ObserverOrder(Invoked(mws), made, newDoc),
   history |-> IF mwEscapes \/ subEscapes THEN after.history
               ELSE SaveToHistory(after.history, doc, after.state),
   threw |-> mwEscapes \/ subEscapes]

\* part_002:161
TooShortLT1(hist) == Len(hist) < 1
TooShort(hist) == Len(hist) < 2

\* part_002:160-173: undo()
UndoOutcome(doc, subs, hist) ==
  IF TooShort(hist)
    THEN [state |-> doc, notified |-> <<>>, history |-> hist, threw |-> FALSE,
          ret |-> "false"]
    ELSE IF Len(hist) < 2
      \* history[length - 2] is undefined: reading its newState is a TypeError
      THEN [state |-> doc, notified |-> <<>>, history |-> hist, threw |-> TRUE,
            ret |-> "throws"]
    ELSE LET previous == hist[Len(hist) - 1]
             due == RestoreCalls(subs, SlotOrder, previous.newState, previous.oldState,
                                 Len(hist) - 1)
         IN
         [state |-> previous.newState,
          notified |-> MadeCalls(due),
          history |-> SubSeq(hist, 1, Len(hist) - 1),
          threw |-> Escapes(Callbacks(due)),
          ret |-> IF Escapes(Callbacks(due)) THEN "throws" ELSE "true"]

\* the updates the callers pass: one entry per key, for up to two keys
UpdateEntries(doc, slot) ==
  {[key |-> slot, value |-> v, same |-> FALSE] : v \in SlotValues(slot)}
  \cup (IF doc[slot].obj THEN {[key |-> slot, value |-> doc[slot], same |-> TRUE]}
        ELSE {})
UpdatesFor(doc) ==
  {<<>>}
  \cup {<<e>> : e \in UpdateEntries(doc, StoreSlots[1]) \cup UpdateEntries(doc, StoreSlots[2])}
  \cup {<<e, f>> : e \in UpdateEntries(doc, StoreSlots[1]),
                   f \in UpdateEntries(doc, StoreSlots[2])}

\* part_002:99-104: getState(key) returns this.state[key] itself when a key is
\* given, and a deep clone of the document otherwise
ReturnsLive(key) == key # NoKey
\* what the caller's mutation of an array makes of it (push / pop)
Mutated(v) == IF v.c = "[]" THEN Obj("[item]") ELSE Obj("[]")
\* the document after the caller mutated the value getState returned: a
\* mutation reaches the document when the value is the slot's own object
AfterReaderMutation(doc, key) ==
  IF ReturnsLive(key) /\ doc[key].obj THEN [doc EXCEPT ![key] = Mutated(@)] ELSE doc

\* part_002:108: path.split('.')
NestedPaths == {"ui.loading", "cart", "currentUser.name"}
PathKeys(path) ==
  IF path = "ui.loading" THEN <<"ui", "loading">>
  ELSE IF path = "currentUser.name" THEN <<"currentUser", "name">>
  ELSE <<path>>
\* the values the callers of updateNestedState pass for a path; same says
\* that an object passed is the very object the document holds at the path
NestedTargets(doc, path) ==
  IF path = "ui.loading"
    THEN {[value |-> Prim(c), same |-> FALSE] : c \in {"false", "true"}}
  ELSE IF path = "currentUser.name" THEN {[value |-> Prim("ann"), same |-> FALSE]}
  ELSE {[value |-> Obj("[]"), same |-> FALSE], [value |-> doc[path], same |-> TRUE]}

\* truthiness of a value
IsTruthy(v) == v.obj \/ v.c \notin {"null", "undefined", "false", "", "0"}
\* current?.[key] on the object a literal stands for
Member(v, field) ==
  IF ~v.obj THEN Prim("undefined")
  ELSE IF field = "loading" /\ v.c = "{loading:true}" THEN Prim("true")
  ELSE IF field = "loading" /\ v.c = "{loading:false}" THEN Prim("false")
  ELSE IF field = "name" /\ v.c = "{name:ann}" THEN Prim("ann")
  ELSE Prim("undefined")
\* target[lastKey] = value on the object a literal stands for
WithMember(v, field, x) ==
  IF field = "loading"
    THEN (IF x.c = "true" THEN Obj("{loading:true}") ELSE Obj("{loading:false}"))
  ELSE IF field = "name" /\ x.c = "ann" THEN Obj("{name:ann}")
  ELSE v

\* part_002:119-121
GetNestedValue(obj, keys) ==
  IF Len(keys) = 1 THEN obj[keys[1]] ELSE Member(obj[keys[1]], keys[2])

\* part_002:123-130: setNestedValue on the clone.  A falsy value on the way is
\* replaced by a new object; a truthy primitive on the way is kept, and the
\* assignment of a property on it is a TypeError in module code
SetNestedValue(obj, keys, value) ==
  IF Len(keys) = 1 THEN [doc |-> [obj EXCEPT ![keys[1]] = value], threw |-> FALSE]
  ELSE LET held == obj[keys[1]]
           target == IF IsTruthy(held) THEN held ELSE Obj("{}")
       IN IF ~target.obj THEN [doc |-> obj, threw |-> TRUE]
          ELSE [doc |-> [obj EXCEPT ![keys[1]] = WithMember(target, keys[2], value)],
                threw |-> FALSE]

\* part_002:111: oldValue === value
SameValueNever(oldValue, target) == FALSE
SameValue(oldValue, target) ==
  IF target.value.obj THEN target.same
  ELSE ~oldValue.obj /\ oldValue.c = target.value.c

\* part_002:113-116: the clone handed to setState, every slot of it
CloneUpdates(newState) ==
  [i \in 1..Len(SlotOrder) |->
     [key |-> SlotOrder[i], value |-> newState[SlotOrder[i]], same |-> FALSE]]

\* part_002:107-117: updateNestedState(path, value)
UpdateNestedOutcome(doc, subs, mws, hist, path, target) ==
  LET keys == PathKeys(path)
      oldValue == GetNestedValue(doc, keys)
      set == SetNestedValue(doc, keys, target.value)
      out == SetStateOutcome(doc, subs, mws, hist, CloneUpdates(set.doc))
  IN
  IF SameValue(oldValue, target)
    THEN [state |-> doc, ran |-> <<>>, notified |-> <<>>, history |-> hist,
          threw |-> FALSE]
  ELSE IF set.threw
    THEN [state |-> doc, ran |-> <<>>, notified |-> <<>>, history |-> hist,
          threw |-> TRUE]
  ELSE out

\* part_002:257-261 and 272: JSON.stringify of a slot and JSON.parse of its
\* text, which gives a new object
Stringify(v) == IF v.obj THEN v.c ELSE "null"
Parse(text) == IF text = "null" THEN Prim("null") ELSE Obj(text)
NoSaved == [present |-> FALSE, filters |-> "null", cart |-> "null", timestamp |-> 0]
Saved(doc, t) ==
  [present |-> TRUE, filters |-> Stringify(doc["filters"]),
   cart |-> Stringify(doc["cart"]), timestamp |-> t]
\* part_002:276: age > 86400000, a day being maxSnapshotAge ticks of the clock
TooOld(age) == age > maxSnapshotAge
\* part_002:280-283: data.filters || this.state.filters, data.cart || this.state.cart
RestoredEntry(doc, key, text) ==
  IF IsTruthy(Parse(text)) THEN [key |-> key, value |-> Parse(text), same |-> FALSE]
  ELSE [key |-> key, value |-> doc[key], same |-> TRUE]
LoadUpdates(doc, saved) ==
  <<RestoredEntry(doc, "filters", saved.filters), RestoredEntry(doc, "cart", saved.cart)>>
\* part_002:267-291: loadFromStorage(): an exception of setState is caught
\* and handed to the error sink, and false is returned
LoadOutcome(doc, subs, mws, hist, saved, t) ==
  LET idle == [state |-> doc, ran |-> <<>>, notified |-> <<>>, history |-> hist,
               threw |-> FALSE, ret |-> "false", item |-> saved, applied |-> FALSE]
      out == SetStateOutcome(doc, subs, mws, hist, LoadUpdates(doc, saved))
  IN
  IF ~saved.present THEN idle
  ELSE IF TooOld(t - saved.timestamp) THEN [idle EXCEPT !.item = NoSaved]
  ELSE [state |-> out.state, ran |-> out.ran, notified |-> out.notified,
        history |-> out.history, threw |-> FALSE,
        ret |-> IF out.threw THEN "false" ELSE "true", item |-> saved,
        applied |-> TRUE]

\* history of the last call
NoStoreCall ==
  [op |-> "none", updates |-> <<>>, before |-> InitialState, entries |-> 0,
   ran |-> <<>>, notified |-> <<>>, threw |-> FALSE, ret |-> "undefined",
   order |-> <<>>]


(***************************************************************************)
(* History of the fast tier.                                               *)
(***************************************************************************)
\* op: the operation; ret: what it returned; item: the entry a get found;
\* swept: the entries a cleanup removed.
\* ok, okDel: whether the durable tier's requests succeeded; evicted: the key
\* a set evicted; oldest: the key that had entered the tier first
NoLast ==
  [op |-> "none", key |-> NoKey, useDB |-> FALSE, ret |-> "undefined", item |-> NoItem,
   ok |-> TRUE, okDel |-> TRUE, evicted |-> NoKey, oldest |-> NoKey, swept |-> {}]

\* the keys in the order they entered the tier: a key leaves on eviction,
\* expiry or clear, and enters (at the end) when set while absent
InsOrderAfterSet(ord, evictedKey, key) ==
  LET kept == SelectSeq(ord, LAMBDA k : k # evictedKey) IN
  IF \E i \in 1..Len(kept) : kept[i] = key THEN kept ELSE Append(kept, key)

EmptyLog == [sets |-> <<>>, clean |-> TRUE]
DirtyLog == [sets |-> <<>>, clean |-> FALSE]
\* the log keeps the sets of distinct keys made since the tier was empty, up to
\* maxMemorySize + 1 of them; anything else that changes the tier ends it
LogAfterSet(log, key, value) ==
  IF log.clean /\ Len(log.sets) <= capacity
     /\ \A i \in 1..Len(log.sets) : log.sets[i].key # key
    THEN [log EXCEPT !.sets = Append(@, [key |-> key, value |-> value])]
    ELSE DirtyLog
LogAfterRemoval(log, mcBefore, mcAfter) ==
  IF mcAfter = mcBefore THEN log
  ELSE IF mcAfter = <<>> THEN EmptyLog
  ELSE DirtyLog

(***************************************************************************)
(* The callers of the cache: cacheManager.set / get / deleteDB / clear /   *)
(* cleanup, the clock, and the outcome of initDB.                          *)
(***************************************************************************)
Constructed ==
  /\ memoryCache = <<>>
  /\ db = [k \in Keys |-> NoItem]
  /\ dbStatus = "opening"
  /\ now = 0
  /\ last = NoLast
  /\ insOrder = <<>>
  /\ fifoLog = EmptyLog
  /\ pc = "idle"
  /\ call = NoCall
  /\ attempt = 0
  /\ lastError = NoError
  /\ result = Pending
  /\ calls = 0
  /\ delays = <<>>
  /\ fails = 0
  /\ reports = 0
  /\ cacheWrite = NoWrite
  /\ prior = NoPrior
  /\ requestQueue = <<>>
  /\ processing = FALSE
  /\ loops = <<>>
  /\ requests = [r \in 1..MaxRequests |-> NoRequest]
  /\ settleOrder = <<>>
  /\ writeCalls = [w \in Writers |-> NoWriteCall]
  /\ state = InitialState
  /\ subscribers = [k \in SlotSet |-> <<>>]
  /\ middleware = <<>>
  /\ history = <<>>
  /\ storeLast = NoStoreCall
  /\ localStorage = NoSaved
\* cache.js:5 (50 in the source): the capacity of the fast tier
Init == capacity = maxMemorySize /\ Constructed

\* cache.js:12-23: openDB resolves and this.db is set
InitDBOpen ==
  /\ dbStatus = "opening"
  /\ dbStatus' = "open"
  /\ last' = NoLast
  /\ UNCHANGED <<memoryCache, db, capacity, now, insOrder>>

\* cache.js:13-16, 20-22: no indexedDB, or openDB rejects: this.db stays null
InitDBNone ==
  /\ dbStatus = "opening"
  /\ dbStatus' = "none"
  /\ last' = NoLast
  /\ UNCHANGED <<memoryCache, db, capacity, now, insOrder>>

Tick ==
  /\ now < MaxTime
  /\ now' = now + 1
  /\ last' = NoLast
  /\ UNCHANGED <<memoryCache, db, dbStatus, capacity, insOrder>>

\* cache.js:142-151
CacheSet(key, value, useDB, ttl, ok) ==
  IF useDB
    THEN /\ db' = SetDBStore(db, dbStatus, key, value, ttl, now, ok)
         /\ last' = [NoLast EXCEPT !.op = "set", !.key = key, !.useDB = TRUE,
                        !.ret = SetDBValue(dbStatus, ok), !.ok = ok]
         /\ UNCHANGED <<memoryCache, dbStatus, capacity, now, insOrder>>
    ELSE /\ memoryCache' = SetMemoryCache(memoryCache, key, value, ttl, now)
         /\ last' = [NoLast EXCEPT !.op = "set", !.key = key, !.ret = "true",
                        !.evicted = EvictedKey(memoryCache),
                        !.oldest = IF Len(insOrder) > 0 THEN insOrder[1] ELSE NoKey]
         /\ insOrder' = InsOrderAfterSet(insOrder, EvictedKey(memoryCache), key)
         /\ UNCHANGED <<db, dbStatus, capacity, now>>

\* cache.js:153-161
CacheGet(key, useDB, okGet, okDel) ==
  IF useDB
    THEN /\ db' = GetDBStore(db, dbStatus, key, now, okGet, okDel)
         /\ last' = [NoLast EXCEPT !.op = "get", !.key = key, !.useDB = TRUE,
                        !.ret = GetDBValue(db, dbStatus, key, now, okGet),
                        !.item = db[key], !.ok = okGet, !.okDel = okDel]
         /\ UNCHANGED <<memoryCache, dbStatus, capacity, now, insOrder>>
    ELSE /\ memoryCache' = GetMemoryCache(memoryCache, key, now)
         /\ last' = [NoLast EXCEPT !.op = "get", !.key = key,
                        !.ret = GetMemoryValue(memoryCache, key, now),
                        !.item = MapGet(memoryCache, key)]
         /\ insOrder' = SelectSeq(insOrder, LAMBDA k : MapHas(memoryCache', k))
         /\ UNCHANGED <<db, dbStatus, capacity, now>>

\* cache.js:124-139
CacheDeleteDB(key, ok) ==
  /\ db' = DeleteDBStore(db, dbStatus, key, ok)
  /\ last' = [NoLast EXCEPT !.op = "deleteDB", !.key = key, !.useDB = TRUE,
                 !.ok = ok]
  /\ UNCHANGED <<memoryCache, dbStatus, capacity, now, insOrder>>

\* cache.js:163-179
CacheClear(ok) ==
  /\ memoryCache' = <<>>
  /\ db' = ClearDB(db, dbStatus, ok)
  /\ last' = [NoLast EXCEPT !.op = "clear", !.ok = ok]
  /\ insOrder' = <<>>
  /\ UNCHANGED <<dbStatus, capacity, now>>

\* cache.js:182-210
CacheCleanup(ok) ==
  /\ memoryCache' = CleanupMemory(memoryCache, now)
  /\ db' = CleanupDB(db, dbStatus, now, ok)
  /\ last' = [NoLast EXCEPT !.op = "cleanup", !.ok = ok,
                 !.swept = ({memoryCache[i] : i \in 1..Len(memoryCache)}
                            \cup {db[k] : k \in DOMAIN db})
                           \ ({memoryCache'[i] : i \in 1..Len(memoryCache')}
                              \cup {db'[k] : k \in DOMAIN db})]
  /\ insOrder' = SelectSeq(insOrder, LAMBDA k : MapHas(memoryCache', k))
  /\ UNCHANGED <<dbStatus, capacity, now>>



\* supabase-service.js:196-211
CacheInvalidate(pattern) ==
  /\ memoryCache' = InvalidateMemory(memoryCache, pattern, now)
  /\ last' = [NoLast EXCEPT !.op = "invalidate", !.key = pattern]
  /\ insOrder' = SelectSeq(insOrder, LAMBDA k : MapHas(memoryCache', k))
  /\ UNCHANGED <<db, dbStatus, capacity, now>>

(***************************************************************************)
(* SupabaseService.execute, supabase-service.js:15-69.  One call is in     *)
(* flight; it is suspended at its awaits (the remote call, the backoff     *)
(* delay), where the other callers of the cache and the clock may act.     *)
(***************************************************************************)
\* history: what a call is expected to find, from the read-through recorded by
\* the call before it: the data that read-through returned, when this call has
\* the same key and tier, uses the cache, starts before the ttl has elapsed and
\* nothing touched the entry in between and, on the durable tier, the store
\* was open and its put and get requests succeeded; "none" otherwise.
\* call.expectStored is that data when moreover it is truthy.
Expectation(key, useCache, useDB, okGet) ==
  IF /\ useCache /\ key # NoKey
     /\ prior.key = key /\ prior.useDB = useDB
     /\ prior.intact
     /\ now - prior.at < prior.ttl
     /\ useDB => (prior.durable /\ dbStatus = "open" /\ okGet)
    THEN prior.data
    ELSE "none"

\* supabase-service.js:15-34, and 61-68 when the loop body never runs
ExecuteStart(key, useCache, useDB, ttl, retries, okGet, okDel) ==
  /\ pc = "idle"
  /\ LET looks == LooksUp(useCache, key)
         cached == IF ~looks THEN "null"
                   ELSE IF useDB THEN GetDBValue(db, dbStatus, key, now, okGet)
                   ELSE GetMemoryValue(memoryCache, key, now)
         exp == Expectation(key, useCache, useDB, okGet)
     IN
     /\ memoryCache' = IF looks /\ ~useDB THEN GetMemoryCache(memoryCache, key, now)
                       ELSE memoryCache
     /\ db' = IF looks /\ useDB THEN GetDBStore(db, dbStatus, key, now, okGet, okDel)
              ELSE db
     /\ call' = [cacheKey |-> key, useCache |-> useCache, useDB |-> useDB,
                 cacheTTL |-> ttl, retries |-> retries, expect |-> exp,
                 expectStored |-> IF Truthy(exp) THEN exp ELSE "none",
                 cached |-> cached,
                 degraded |-> looks /\ useDB /\ (dbStatus # "open" \/ ~okGet)]
     /\ IF Hits(looks, cached)
          THEN /\ result' = CacheHit(cached)
               /\ pc' = "done"
               /\ UNCHANGED <<attempt, reports>>
          ELSE IF 1 <= retries
            THEN /\ pc' = "attempt"
                 /\ attempt' = 1
                 /\ UNCHANGED <<result, reports>>
            ELSE /\ reports' = reports + 1
                 /\ result' = Exhausted(lastError)
                 /\ pc' = "done"
                 /\ UNCHANGED attempt
  /\ insOrder' = SelectSeq(insOrder, LAMBDA k : MapHas(memoryCache', k))
  /\ last' = NoLast
  /\ prior' = NoPrior
  /\ UNCHANGED <<dbStatus, capacity, now, lastError, calls, delays, fails, cacheWrite, fifoLog>>

\* supabase-service.js:35-58 and 61-68: one pass of the loop body, from the
\* invocation of queryFn to the return, the rejection or the start of the delay
ExecuteAttempt(o, okSet) ==
  /\ pc = "attempt"
  /\ calls' = calls + 1
  /\ last' = NoLast
  /\ UNCHANGED <<dbStatus, capacity, now, call, attempt, fifoLog>>
  /\ IF ~AttemptThrows(o)
       THEN LET storing == Cacheable(call.useCache, call.cacheKey, o.data)
                entry == Item(call.cacheKey, o.data, now, call.cacheTTL)
            IN
            /\ memoryCache' =
                 IF storing /\ ~call.useDB
                   THEN SetMemoryCache(memoryCache, call.cacheKey, o.data,
                                       call.cacheTTL, now)
                   ELSE memoryCache
            /\ db' = IF storing /\ call.useDB
                       THEN SetDBStore(db, dbStatus, call.cacheKey, o.data,
                                       call.cacheTTL, now, okSet)
                       ELSE db
            /\ insOrder' = IF storing /\ ~call.useDB
                             THEN InsOrderAfterSet(insOrder, EvictedKey(memoryCache),
                                                   call.cacheKey)
                             ELSE insOrder
            /\ cacheWrite' =
                 IF storing
                   THEN [called |-> TRUE, key |-> call.cacheKey, value |-> o.data,
                         ttl |-> call.cacheTTL, useDB |-> call.useDB,
                         ret |-> IF call.useDB THEN SetDBValue(dbStatus, okSet)
                                 ELSE "true",
                         stored |-> EntryOf(memoryCache', db', call.cacheKey,
                                            call.useDB) = entry,
                         untouched |-> memoryCache' = memoryCache /\ db' = db,
                         degraded |-> call.useDB /\ (dbStatus # "open" \/ ~okSet)]
                   ELSE NoWrite
            /\ prior' =
                 IF call.useCache /\ call.cacheKey # NoKey
                   THEN [key |-> call.cacheKey, useDB |-> call.useDB, data |-> o.data,
                         ttl |-> call.cacheTTL, at |-> now, intact |-> TRUE,
                         durable |-> call.useDB => (dbStatus = "open" /\ okSet)]
                   ELSE [prior EXCEPT !.intact =
                           @ /\ EntryOf(memoryCache', db', prior.key, prior.useDB)
                                = EntryOf(memoryCache, db, prior.key, prior.useDB)]
            /\ result' = AttemptResult(o)
            /\ pc' = "done"
            /\ UNCHANGED <<lastError, fails, delays, reports>>
       ELSE /\ lastError' = AttemptError(o)
            /\ fails' = fails + 1
            /\ UNCHANGED <<memoryCache, db, insOrder, cacheWrite>>
            /\ PriorKeep
            /\ IF CatchThrows(AttemptError(o))
                 THEN /\ result' = Rejected(Err("typeerror"))
                      /\ pc' = "done"
                      /\ UNCHANGED <<delays, reports>>
                 ELSE IF RetriesAfter(attempt, call.retries)
                   THEN /\ delays' = Append(delays, Backoff(attempt))
                        /\ pc' = "delay"
                        /\ UNCHANGED <<result, reports>>
                   ELSE /\ reports' = reports + 1
                        /\ result' = Exhausted(AttemptError(o))
                        /\ pc' = "done"
                        /\ UNCHANGED delays

\* supabase-service.js:56, 71-73 and 34: the delay's timer fires, attempt++
ExecuteDelayDone ==
  /\ pc = "delay"
  /\ attempt' = attempt + 1
  /\ pc' = "attempt"
  /\ last' = NoLast
  /\ UNCHANGED <<cacheVars, insOrder, fifoLog, call, lastError, result, calls, delays,
                 fails, reports, cacheWrite, prior>>

\* the caller has the settled promise; the next call starts from scratch
ExecuteReturn ==
  /\ pc = "done"
  /\ pc' = "idle"
  /\ call' = NoCall
  /\ attempt' = 0
  /\ lastError' = NoError
  /\ result' = Pending
  /\ calls' = 0
  /\ delays' = <<>>
  /\ fails' = 0
  /\ reports' = 0
  /\ cacheWrite' = NoWrite
  /\ last' = NoLast
  /\ UNCHANGED <<cacheVars, insOrder, fifoLog, prior>>

(***************************************************************************)
(* The cache and its callers alone.                                        *)
(***************************************************************************)
\* bound on the callers: they fill one tier at a time, the other being empty
\* (the tiers share no state; clear and cleanup act on both)
OneTier(useDB) ==
  IF useDB THEN memoryCache = <<>> ELSE \A k \in Keys : db[k] = NoItem

OpenDB == InitDBOpen /\ UNCHANGED <<execVars, fifoLog, outsideCache>> /\ PriorKeep
NoDB == InitDBNone /\ UNCHANGED <<execVars, fifoLog, outsideCache>> /\ PriorKeep
Clock == Tick /\ UNCHANGED <<execVars, fifoLog, outsideCache>> /\ PriorKeep
Set ==
  \E key \in Keys, value \in Values, useDB \in BOOLEAN, ttl \in TTLs, ok \in BOOLEAN :
    /\ useDB => key \in DBKeys
    /\ ~useDB => ok
    /\ OneTier(useDB)
    /\ CacheSet(key, value, useDB, ttl, ok)
    /\ fifoLog' = IF useDB THEN fifoLog ELSE LogAfterSet(fifoLog, key, value)
    /\ UNCHANGED <<execVars, outsideCache>> /\ PriorKeep
Get ==
  \E key \in Keys, useDB \in BOOLEAN, okGet \in BOOLEAN, okDel \in BOOLEAN :
    /\ useDB => key \in DBKeys
    /\ ~useDB => okGet /\ okDel
    /\ CacheGet(key, useDB, okGet, okDel)
    /\ fifoLog' = LogAfterRemoval(fifoLog, memoryCache, memoryCache')
    /\ UNCHANGED <<execVars, outsideCache>> /\ PriorKeep
DeleteDB ==
  \E key \in DBKeys, ok \in BOOLEAN :
    CacheDeleteDB(key, ok) /\ UNCHANGED <<execVars, fifoLog, outsideCache>> /\ PriorKeep
Clear ==
  \E ok \in BOOLEAN :
    /\ CacheClear(ok) /\ fifoLog' = EmptyLog
    /\ UNCHANGED <<execVars, outsideCache>> /\ PriorKeep
Cleanup ==
  \E ok \in BOOLEAN :
    /\ CacheCleanup(ok)
    /\ fifoLog' = LogAfterRemoval(fifoLog, memoryCache, memoryCache')
    /\ UNCHANGED <<execVars, outsideCache>> /\ PriorKeep

\* the fast tier with room for one entry more, under sets and gets alone
InitFifo == capacity = maxMemorySize + 1 /\ Constructed
NextFifo == Set \/ Get
SpecFifo == InitFifo /\ [][NextFifo]_vars

NextCache == OpenDB \/ NoDB \/ Clock \/ Set \/ Get \/ DeleteDB \/ Clear \/ Cleanup
SpecCache == Init /\ [][NextCache]_vars

(***************************************************************************)
(* execute and the other callers of the cache.                             *)
(***************************************************************************)
ExecKeys == {"products_all"}
ExecTTLs == {MaxTTL}
Start ==
  \E key \in ExecKeys \cup {NoKey}, useCache \in BOOLEAN, useDB \in BOOLEAN,
     ttl \in ExecTTLs, given \in BOOLEAN, r \in 0..MaxRetries,
     okGet \in BOOLEAN, okDel \in BOOLEAN :
    /\ useDB => key \in DBKeys
    /\ ~(useDB /\ LooksUp(useCache, key)) => okGet /\ okDel
    /\ ~given => r = 0
    /\ OneTier(useDB)
    /\ ExecuteStart(key, useCache, useDB, ttl, IF given THEN r ELSE retryAttempts,
                    okGet, okDel)
    /\ UNCHANGED outsideCache
Attempt ==
  \E o \in Outcomes, okSet \in BOOLEAN :
    /\ ~call.useDB => okSet
    /\ ExecuteAttempt(o, okSet)
    /\ UNCHANGED outsideCache
DelayDone == ExecuteDelayDone /\ UNCHANGED outsideCache
Return == ExecuteReturn /\ UNCHANGED outsideCache

\* The other callers act while the call is suspended on the remote call
\* (pc = "attempt") or between calls; a step of theirs during the delay or after
\* the call settled commutes with the timer and with the return.
Suspended == pc \in {"idle", "attempt"}
ExecOpenDB == Suspended /\ OpenDB
ExecClock == Suspended /\ Clock
\* another writer of the cache
ExecOtherSet ==
  /\ Suspended
  /\ \E key \in Keys, useDB \in BOOLEAN :
       /\ useDB => key \in DBKeys
       /\ OneTier(useDB)
       /\ CacheSet(key, "v1", useDB, MaxTTL, TRUE)
       /\ UNCHANGED <<execVars, fifoLog, outsideCache>> /\ PriorKeep
ExecClear ==
  /\ Suspended /\ CacheClear(TRUE)
  /\ UNCHANGED <<execVars, fifoLog, outsideCache>> /\ PriorKeep
\* a caller invalidates a pattern
ExecInvalidate ==
  /\ Suspended
  /\ \E pattern \in Patterns : CacheInvalidate(pattern)
  /\ UNCHANGED <<execVars, fifoLog, outsideCache>> /\ PriorKeep

NextExecute ==
  \/ Start \/ Attempt \/ DelayDone \/ Return
  \/ ExecOpenDB \/ ExecClock \/ ExecOtherSet \/ ExecClear \/ ExecInvalidate
SpecExecute == Init /\ [][NextExecute]_vars

(***************************************************************************)
(* The write queue and the public write operations.                        *)
(***************************************************************************)
notQueue == <<cacheVars, cacheHist, execVars, prior, storeVars>>

\* supabase-service.js:166-171 and, through the call of processQueue,
\* 173-182: the request is pushed; when no loop is active one starts, takes
\* the head of the queue and invokes its function
QueueRequest ==
  \E r \in 1..MaxRequests, inv \in Invocations :
    /\ ~requests[r].submitted
    /\ \A q \in 1..(r - 1) : requests[q].submitted
    /\ LET queued == Append(requestQueue, r)
           reqs == [requests EXCEPT ![r].submitted = TRUE,
                                    ![r].settledBefore = Len(settleOrder),
                                    ![r].during = IF Len(loops) > 0 THEN loops[1].at
                                                  ELSE "none"]
       IN
       IF Busy(processing, queued)
         THEN /\ inv = "pending"
              /\ requestQueue' = queued
              /\ requests' = reqs
              /\ UNCHANGED <<processing, loops, settleOrder>>
         ELSE /\ processing' = TRUE
              /\ requestQueue' = Shift(queued).rest
              /\ requests' = InvokedRequests(reqs, Shift(queued).item, inv)
              /\ settleOrder' = InvokedOrder(settleOrder, Shift(queued).item, inv)
              /\ loops' = Append(loops, [req |-> Shift(queued).item,
                                         at |-> InvokedAt(inv)])
    /\ UNCHANGED <<writeCalls, notQueue>>

\* supabase-service.js:182-189: the promise of requestFn() settles; the loop
\* resolves or rejects the request's promise and starts the delay
DrainSettle ==
  \E i \in 1..Len(loops), ok \in BOOLEAN :
    /\ loops[i].at = "request"
    /\ requests' = [requests EXCEPT
                      ![loops[i].req].fn = IF ok THEN "fulfilled" ELSE "failed",
                      ![loops[i].req].settled = @ + 1,
                      ![loops[i].req].promise = Settle(@, ok)]
    /\ settleOrder' = Append(settleOrder, loops[i].req)
    /\ loops' = [loops EXCEPT ![i].at = "delay"]
    /\ UNCHANGED <<requestQueue, processing, writeCalls, notQueue>>

\* supabase-service.js:189, 178-182 and 192: the delay is over; the loop takes
\* the next request, or ends and clears the flag
DrainDelayDone ==
  \E i \in 1..Len(loops), inv \in Invocations :
    /\ loops[i].at = "delay"
    /\ IF Remaining(requestQueue)
         THEN /\ requestQueue' = Shift(requestQueue).rest
              /\ requests' = InvokedRequests(requests, Shift(requestQueue).item, inv)
              /\ settleOrder' = InvokedOrder(settleOrder, Shift(requestQueue).item, inv)
              /\ loops' = [loops EXCEPT ![i] = [req |-> Shift(requestQueue).item,
                                                at |-> InvokedAt(inv)]]
              /\ UNCHANGED processing
         ELSE /\ inv = "pending"
              /\ processing' = FALSE
              /\ loops' = [j \in 1..(Len(loops) - 1) |->
                             IF j < i THEN loops[j] ELSE loops[j + 1]]
              /\ UNCHANGED <<requestQueue, requests, settleOrder>>
    /\ UNCHANGED <<writeCalls, notQueue>>

queueOnly == <<requestQueue, processing, loops, requests, settleOrder>>
writeFrame == <<db, dbStatus, capacity, now, fifoLog, execVars, queueOnly, storeVars>>

\* supabase-service.js:141-154 with 15-36: createOrder / updateProduct call
\* execute with useCache false: no lookup, the first attempt starts
WriteCall(w) ==
  /\ writeCalls[w].pc = "idle"
  /\ ~LooksUp(FALSE, NoKey)
  /\ 1 <= WriteRetries(w)
  /\ writeCalls' = [writeCalls EXCEPT ![w] = [pc |-> "remote", attempt |-> 1,
                                      result |-> Pending]]
  /\ last' = NoLast
  /\ UNCHANGED <<memoryCache, insOrder, writeFrame>> /\ PriorKeep

\* supabase-service.js:36-68 and 156-162: the remote operation of the call
\* settles; on success execute returns its result, and updateProduct reads the
\* two cache keys of the product when result.data is truthy
WriteRemote(w, o) ==
  /\ writeCalls[w].pc = "remote"
  /\ last' = NoLast
  /\ IF ~AttemptThrows(o)
       THEN /\ ~Cacheable(FALSE, NoKey, o.data)
            /\ writeCalls' = [writeCalls EXCEPT ![w].pc = "done",
                                        ![w].result = AttemptResult(o)]
            /\ memoryCache' =
                 IF w = "updateProduct" /\ Truthy(o.data)
                   THEN GetMemoryCache(GetMemoryCache(memoryCache, "product_1", now),
                                       "products_all", now)
                   ELSE memoryCache
       ELSE /\ UNCHANGED memoryCache
            /\ IF CatchThrows(AttemptError(o))
                 THEN writeCalls' = [writeCalls EXCEPT ![w].pc = "done",
                                               ![w].result = Rejected(Err("typeerror"))]
                 ELSE IF RetriesAfter(writeCalls[w].attempt, WriteRetries(w))
                   THEN writeCalls' = [writeCalls EXCEPT ![w].pc = "backoff"]
                   ELSE writeCalls' = [writeCalls EXCEPT ![w].pc = "done",
                                                 ![w].result = Exhausted(AttemptError(o))]
  /\ insOrder' = SelectSeq(insOrder, LAMBDA k : MapHas(memoryCache', k))
  /\ UNCHANGED writeFrame /\ PriorKeep

\* supabase-service.js:56 and 34: the backoff is over, the next attempt starts
WriteBackoffDone(w) ==
  /\ writeCalls[w].pc = "backoff"
  /\ writeCalls' = [writeCalls EXCEPT ![w].pc = "remote", ![w].attempt = @ + 1]
  /\ last' = NoLast
  /\ UNCHANGED <<memoryCache, insOrder, writeFrame>> /\ PriorKeep

\* the caller has the settled promise
WriteReturn(w) ==
  /\ writeCalls[w].pc = "done"
  /\ writeCalls' = [writeCalls EXCEPT ![w] = NoWriteCall]
  /\ last' = NoLast
  /\ UNCHANGED <<memoryCache, insOrder, writeFrame>> /\ PriorKeep

Call == \E w \in Writers : WriteCall(w)
Remote == \E w \in Writers, o \in WriteOutcomes : WriteRemote(w, o)
BackoffDone == \E w \in Writers : WriteBackoffDone(w)
Returned == \E w \in Writers : WriteReturn(w)

NextQueue ==
  \/ QueueRequest \/ DrainSettle \/ DrainDelayDone
  \/ Call \/ Remote \/ BackoffDone \/ Returned
SpecQueue == Init /\ [][NextQueue]_vars

\* the queue alone.  Every promise a request function returned settles and
\* every timer of delay fires: the steps of the drain loop are weakly fair;
\* the callers enqueue when they please
NextDrain == QueueRequest \/ DrainSettle \/ DrainDelayDone
SpecDrain ==
  Init /\ [][NextDrain]_vars /\ WF_vars(DrainSettle) /\ WF_vars(DrainDelayDone)

(***************************************************************************)
(* The state store and its callers.                                        *)
(***************************************************************************)
notStore == <<cacheVars, cacheHist, execVars, prior, queueVars>>
RECURSIVE Subscriptions(_, _)
Subscriptions(subs, keys) ==
  IF keys = <<>> THEN 0 ELSE Len(subs[Head(keys)]) + Subscriptions(subs, Tail(keys))
Observers == Len(middleware) + Subscriptions(subscribers, SlotOrder)

\* part_002:33-39
Subscribe(key, callback) ==
  /\ Observers < MaxObservers
  /\ subscribers' = [subscribers EXCEPT ![key] = Append(@, callback)]
  /\ storeLast' = NoStoreCall
  /\ UNCHANGED <<state, middleware, history, localStorage, notStore>>

\* part_002:41-46: the function subscribe returned
Unsubscribe(key, callback) ==
  /\ IndexOf(subscribers[key], callback) > 0
  /\ subscribers' = [subscribers EXCEPT
                       ![key] = Splice(@, IndexOf(subscribers[key], callback))]
  /\ storeLast' = NoStoreCall
  /\ UNCHANGED <<state, middleware, history, localStorage, notStore>>

\* part_002:133-134
AddMiddleware(mw) ==
  /\ Observers < MaxObservers
  /\ middleware' = Append(middleware, mw)
  /\ storeLast' = NoStoreCall
  /\ UNCHANGED <<state, subscribers, history, localStorage, notStore>>

\* part_002:136-141: the function addMiddleware returned
RemoveMiddleware(mw) ==
  /\ IndexOf(middleware, mw) > 0
  /\ middleware' = Splice(middleware, IndexOf(middleware, mw))
  /\ storeLast' = NoStoreCall
  /\ UNCHANGED <<state, subscribers, history, localStorage, notStore>>

\* part_002:63-96
SetState(updates) ==
  LET out == SetStateOutcome(state, subscribers, middleware, history, updates) IN
  /\ state' = out.state
  /\ history' = out.history
  /\ storeLast' = [op |-> "setState", updates |-> updates, before |-> state,
                   entries |-> Len(history),
                   ran |-> out.ran, notified |-> out.notified, threw |-> out.threw,
                   ret |-> IF out.threw THEN "throws" ELSE "state",
                   order |-> out.order]
  /\ subscribers' = SubscribersAfter(subscribers, out.notified)
  /\ UNCHANGED <<middleware, localStorage, notStore>>

\* part_002:160-173
Undo ==
  LET out == UndoOutcome(state, subscribers, history) IN
  /\ state' = out.state
  /\ history' = out.history
  /\ storeLast' = [op |-> "undo", updates |-> <<>>, before |-> state,
                   entries |-> Len(history),
                   ran |-> <<>>, notified |-> out.notified, threw |-> out.threw,
                   ret |-> out.ret, order |-> <<>>]
  /\ subscribers' = SubscribersAfter(subscribers, out.notified)
  /\ UNCHANGED <<middleware, localStorage, notStore>>

\* part_002:99-104: a reader calls getState and mutates what it returned
GetState(key) ==
  /\ state' = AfterReaderMutation(state, key)
  /\ storeLast' = [NoStoreCall EXCEPT
                     !.op = "getState", !.before = state, !.entries = Len(history),
                     !.updates = <<[key |-> key, value |-> Prim("reader"),
                                    same |-> ReturnsLive(key)]>>,
                     !.ret = IF ReturnsLive(key) THEN "slot" ELSE "clone"]
  /\ UNCHANGED <<subscribers, middleware, history, localStorage, notStore>>

\* part_002:107-117
UpdateNestedState(path, target) ==
  LET out == UpdateNestedOutcome(state, subscribers, middleware, history, path, target) IN
  /\ state' = out.state
  /\ history' = out.history
  /\ storeLast' = [op |-> "updateNestedState",
                   updates |-> <<[key |-> path, value |-> target.value,
                                  same |-> target.same]>>,
                   before |-> state, entries |-> Len(history),
                   ran |-> out.ran, notified |-> out.notified, threw |-> out.threw,
                   ret |-> IF out.threw THEN "throws" ELSE "state", order |-> <<>>]
  /\ subscribers' = SubscribersAfter(subscribers, out.notified)
  /\ UNCHANGED <<middleware, localStorage, notStore>>

\* part_002:255-265
SaveToStorage ==
  /\ localStorage' = Saved(state, now)
  /\ storeLast' = [NoStoreCall EXCEPT !.op = "saveToStorage", !.before = state,
                                      !.entries = Len(history)]
  /\ UNCHANGED <<state, subscribers, middleware, history, notStore>>

\* part_002:267-291
LoadFromStorage ==
  LET out == LoadOutcome(state, subscribers, middleware, history, localStorage, now) IN
  /\ state' = out.state
  /\ history' = out.history
  /\ localStorage' = out.item
  /\ storeLast' = [op |-> "loadFromStorage",
                   updates |-> IF out.applied THEN LoadUpdates(state, localStorage)
                               ELSE <<>>,
                   before |-> state, entries |-> Len(history),
                   ran |-> out.ran, notified |-> out.notified, threw |-> out.threw,
                   ret |-> out.ret, order |-> <<>>]
  /\ subscribers' = SubscribersAfter(subscribers, out.notified)
  /\ UNCHANGED <<middleware, notStore>>

StoreKeys == {StoreSlots[i] : i \in 1..Len(StoreSlots)}
StoreGetState == \E key \in StoreKeys \cup {NoKey} : GetState(key)
StoreSubscribe == \E key \in StoreKeys, callback \in Behaviours : Subscribe(key, callback)
StoreUnsubscribe == \E key \in StoreKeys, callback \in Behaviours : Unsubscribe(key, callback)
StoreAddMiddleware == \E mw \in Behaviours : AddMiddleware(mw)
StoreRemoveMiddleware == \E mw \in Behaviours : RemoveMiddleware(mw)
StoreSetState == \E updates \in UpdatesFor(state) : SetState(updates)
StoreUndo == Undo

NextStore ==
  \/ StoreSubscribe \/ StoreUnsubscribe \/ StoreAddMiddleware \/ StoreRemoveMiddleware
  \/ StoreSetState \/ StoreUndo
SpecStore == Init /\ [][NextStore]_vars

\* the document, its writers and its readers, no observer being registered
NextReader == StoreGetState \/ StoreSetState \/ StoreUndo
SpecReader == Init /\ [][NextReader]_vars

\* the document under updateNestedState, with its observers
NestedKeys == {"cart", "ui"}
NextNested ==
  \/ \E key \in NestedKeys, callback \in Behaviours : Subscribe(key, callback)
  \/ \E key \in NestedKeys, callback \in Behaviours : Unsubscribe(key, callback)
  \/ StoreAddMiddleware \/ StoreRemoveMiddleware
  \/ \E path \in NestedPaths : \E target \in NestedTargets(state, path) :
       UpdateNestedState(path, target)
SpecNested == Init /\ [][NextNested]_vars

\* the document and its persisted snapshot: addToCart and clearCart change
\* the cart, the clock advances between a save and a load
StorageKeys == {"cart"}
NextStorage ==
  \/ \E key \in StorageKeys, callback \in Behaviours : Subscribe(key, callback)
  \/ \E key \in StorageKeys, callback \in Behaviours : Unsubscribe(key, callback)
  \/ StoreAddMiddleware \/ StoreRemoveMiddleware
  \/ \E c \in {"[]", "[item]"} :
       SetState(<<[key |-> "cart", value |-> Obj(c), same |-> FALSE]>>)
  \/ SaveToStorage \/ LoadFromStorage
  \/ (Tick /\ UNCHANGED <<execVars, fifoLog, prior, outsideCache>>)
SpecStorage == Init /\ [][NextStorage]_vars

\* the public writes and the fast tier: getProducts / getProduct have stored
\* their results under the keys of the products, the clock advances
WriteKeys == ProductKeys \cup {"products_all"}
WriteCached ==
  /\ \E key \in WriteKeys, value \in Values :
       CacheSet(key, value, FALSE, MaxTTL, TRUE)
  /\ UNCHANGED <<execVars, fifoLog, outsideCache>> /\ PriorKeep
NextWrite == WriteCached \/ Clock \/ Call \/ Remote \/ BackoffDone \/ Returned
SpecWrite == Init /\ [][NextWrite]_vars

\* the subscribers of a slot, some of which unsubscribe when called
NotifyBehaviours == {"returns", "unsubscribes"}
NextNotify ==
  \/ \E callback \in NotifyBehaviours : Subscribe("currentUser", callback)
  \/ \E callback \in NotifyBehaviours : Unsubscribe("currentUser", callback)
  \/ \E v \in SlotValues("currentUser") :
       SetState(<<[key |-> "currentUser", value |-> v, same |-> FALSE]>>)
SpecNotify == Init /\ [][NextNotify]_vars

\* the subscribers of currentUser, some of which call setState when called,
\* with setState and undo
ReentrantBehaviours == {"returns", "setsCart"}
NextReentrant ==
  \/ \E callback \in ReentrantBehaviours : Subscribe("currentUser", callback)
  \/ \E callback \in ReentrantBehaviours : Unsubscribe("currentUser", callback)
  \/ Subscribe("cart", "returns")
  \/ \E v \in SlotValues("currentUser") :
       SetState(<<[key |-> "currentUser", value |-> v, same |-> FALSE]>>)
  \/ SetState(<<[key |-> "cart", value |-> Obj("[]"), same |-> FALSE]>>)
  \/ Undo
SpecReentrant == Init /\ [][NextReentrant]_vars

Spec == SpecCache

(***************************************************************************)
(* Properties of the cache, checked under SpecCache.                       *)
(***************************************************************************)
\* the last operation was a get that found an entry for its key
GotEntry == last.op = "get" /\ last.item # NoItem
\* time elapsed since that entry was set (the clock has not moved since the get)
Elapsed == now - last.item.timestamp
\* the entry the tier holds now for the key of the last operation
EntryNow == EntryOf(memoryCache, db, last.key, last.useDB)
\* the get could read its tier: always on the fast tier, and on the durable
\* tier when the read request succeeded
ReadWorked == last.useDB => last.ok

\* C1, as stated: a get of a stored key returns the stored value when the time
\* elapsed since the set is less than the ttl, and returns absent and removes
\* the entry when the time elapsed is greater than or equal to the ttl (stated
\* for a positive ttl and, on the durable tier, for requests that succeed).
C1_Original ==
  (GotEntry /\ ReadWorked /\ (last.useDB => last.okDel) /\ last.item.ttl > 0) =>
     IF Elapsed < last.item.ttl
       THEN last.ret = last.item.value
       ELSE last.ret = "null" /\ EntryNow = NoItem

\* C1, amended: a get of a stored key returns the stored value and leaves the
\* entry in place when the time elapsed since the set is at most the ttl, and
\* returns absent and removes the entry when the time elapsed exceeds the ttl.
\* On the durable tier a failed read request returns absent and leaves the
\* entry, and a failed delete request leaves the expired entry in the store.
C1_TTL ==
  GotEntry =>
     IF ~ReadWorked
       THEN last.ret = "null" /\ EntryNow = last.item
       ELSE IF Elapsed <= last.item.ttl
         THEN last.ret = last.item.value /\ EntryNow = last.item
         ELSE /\ last.ret = "null"
              /\ EntryNow = IF last.useDB /\ ~last.okDel THEN last.item ELSE NoItem

\* a get on the fast tier issued exactly ttl after the set returned the value
C1_Witness ==
  /\ GotEntry /\ ~last.useDB
  /\ last.item.ttl > 0
  /\ Elapsed = last.item.ttl
  /\ last.ret = last.item.value

\* C2: after maxMemorySize + 1 sets of distinct keys into the empty fast tier,
\* the tier holds exactly the last maxMemorySize keys set, in that order, each
\* with the value it was set to; the first key set is gone.
C2_FifoEviction ==
  (fifoLog.clean /\ Len(fifoLog.sets) = maxMemorySize + 1) =>
     /\ Len(memoryCache) = maxMemorySize
     /\ \A i \in 1..maxMemorySize :
          /\ memoryCache[i].key = fifoLog.sets[i + 1].key
          /\ memoryCache[i].value = fifoLog.sets[i + 1].value
     /\ ~MapHas(memoryCache, fifoLog.sets[1].key)

\* the set of the (maxMemorySize + 1)-th distinct key has just evicted the first
C2_Witness ==
  /\ fifoLog.clean /\ Len(fifoLog.sets) = maxMemorySize + 1
  /\ last.op = "set" /\ last.evicted = fifoLog.sets[1].key

\* C3: the Map's order is the order in which its keys entered the tier,
\* whatever gets were made, and the key a set evicts is the one that entered
\* first among those present.
C3_FifoNotLru ==
  /\ MapKeys(memoryCache) = insOrder
  /\ (last.op = "set" /\ ~last.useDB /\ last.evicted # NoKey) =>
       last.evicted = last.oldest

\* a successful get of the oldest key of the full tier has left it the next
\* key to be evicted
C3_Witness ==
  /\ last.op = "get" /\ ~last.useDB /\ last.ret # "null"
  /\ Len(memoryCache) = maxMemorySize /\ maxMemorySize > 1
  /\ Victim(memoryCache) = last.key

\* C4: the fast tier never holds more than maxMemorySize entries.
C4_Capacity == Len(memoryCache) <= maxMemorySize

\* a set has evicted the oldest entry of the full tier
C4_Witness ==
  /\ last.op = "set" /\ last.evicted # NoKey
  /\ Len(memoryCache) = maxMemorySize

(***************************************************************************)
(* Properties of execute, checked under SpecExecute.                       *)
(***************************************************************************)
Settled == pc = "done"
\* the call settled on an attempt that did not fail
SucceededByAttempt == Settled /\ calls = fails + 1
\* the call missed the cache and every attempt of its budget failed
AllAttemptsFailed ==
  Settled /\ result.fromCache # "true" /\ calls = call.retries /\ fails = calls
BackoffDelays(n) == [i \in 1..n |-> retryDelay * i]
ErrorResult ==
  result.settled = "resolved" /\ result.data = "null" /\ result.error # NoError

\* C5, as stated: a call that fails on attempts 1..k-1 and succeeds on attempt
\* k returns the success result after k invocations and the k-1 delays
\* retryDelay * 1, ..., retryDelay * (k-1); a call whose `retries` attempts all
\* fail returns an error result after `retries` invocations and retries-1 delays.
C5_Original ==
  /\ SucceededByAttempt =>
       /\ result.settled = "resolved" /\ result.error = NoError
       /\ calls <= call.retries
       /\ delays = BackoffDelays(calls - 1)
  /\ (AllAttemptsFailed /\ call.retries >= 1) =>
       /\ ErrorResult
       /\ delays = BackoffDelays(call.retries - 1)

\* C6, as stated: a call with the key and tier of an earlier successful
\* read-through, using the cache, started before the ttl elapsed and with the
\* entry untouched in between, returns that read-through's data tagged
\* fromCache: true without invoking the operation (on the durable tier: when
\* the store was open and its requests succeeded).
C6_Original ==
  call.expect # "none" =>
     /\ Settled /\ calls = 0
     /\ result = Resolved(call.expect, NoError, "true", FALSE)

\* C6, amended: the same, for a read-through whose data is truthy.
C6_ReadThrough ==
  call.expectStored # "none" =>
     /\ Settled /\ calls = 0
     /\ result = Resolved(call.expectStored, NoError, "true", FALSE)

\* a call was answered from the cache with the data of the read-through before it
C6_Witness ==
  /\ Settled /\ call.expectStored = "v2" /\ result.fromCache = "true"
  /\ result.data = "v2" /\ calls = 0

\* C7, as stated: a result obtained by invoking the operation is returned
\* tagged fromCache: false.
C7_Original == SucceededByAttempt => result.fromCache = "false"

\* C7, amended: a result obtained by invoking the operation is returned as the
\* operation produced it, with no fromCache tag (fromCache is undefined);
\* only a result answered from the cache carries the tag, fromCache: true.
C7_Untagged ==
  /\ SucceededByAttempt =>
       /\ result.settled = "resolved" /\ result.fromCache = "undefined"
       /\ result.error = NoError /\ ~result.errorInfo
  /\ (Settled /\ result.fromCache = "true") => calls = 0

\* the operation failed twice, then returned data, under retries 3
C7_Witness ==
  /\ SucceededByAttempt /\ call.retries = 3 /\ fails = 2
  /\ result.data = "v2" /\ result.fromCache = "undefined"

\* C8, as stated: every successful attempt of a call that uses the cache stores
\* the returned data under cacheKey with ttl cacheTTL on the tier selected by
\* useDB, whatever the data is (on the durable tier: calls set for it).
C8_Original ==
  (SucceededByAttempt /\ call.useCache /\ call.cacheKey # NoKey) =>
     /\ cacheWrite.called
     /\ ~call.useDB => cacheWrite.stored

\* C8, amended: a successful attempt calls cacheManager.set exactly when the
\* call uses the cache, has a cacheKey and the returned data is truthy; the
\* call is set(cacheKey, data, {useDB, ttl: cacheTTL}), which stores the entry
\* on the fast tier, and on the durable tier stores it when it returns true
\* (the store is open and the put request succeeds) and changes nothing when
\* it returns false.
C8_StoresTruthy ==
  SucceededByAttempt =>
     /\ cacheWrite.called
          = (call.useCache /\ call.cacheKey # NoKey /\ Truthy(result.data))
     /\ cacheWrite.called =>
          /\ cacheWrite.key = call.cacheKey /\ cacheWrite.value = result.data
          /\ cacheWrite.ttl = call.cacheTTL /\ cacheWrite.useDB = call.useDB
          /\ cacheWrite.ret = "true" => cacheWrite.stored
          /\ cacheWrite.ret # "true" => cacheWrite.untouched
          /\ ~call.useDB => cacheWrite.ret = "true"
     /\ ~cacheWrite.called => cacheWrite.untouched

\* a retried call has stored its data on the durable tier
C8_Witness ==
  /\ SucceededByAttempt /\ fails > 0 /\ call.useDB
  /\ cacheWrite.called /\ cacheWrite.stored
  /\ db[call.cacheKey] = Item(call.cacheKey, "v2", now, call.cacheTTL)

\* C9, as stated: execute always resolves, never rejects; when all attempts
\* are exhausted the result has data null and the error of the last failed
\* attempt.
C9_Original ==
  Settled =>
     /\ result.settled = "resolved"
     /\ (AllAttemptsFailed /\ call.retries >= 1) =>
          result.data = "null" /\ result.error = lastError

\* C10, as stated: a call reports to errorHandler.handleError exactly once if
\* all its attempts were exhausted, and not at all otherwise.
C10_Original ==
  Settled => reports = (IF AllAttemptsFailed THEN 1 ELSE 0)

\* C15 (as stated): after invalidateCache(pattern) the fast tier holds no
\* entry, expired or not, for the pattern's aggregate key nor for a key of its
\* prefix family.
C15_Original ==
  last.op = "invalidate" =>
    \A k \in {AggregateKey(last.key)} \cup PrefixFamily(last.key) :
      ~MapHas(memoryCache, k)

(***************************************************************************)
(* Properties of the write queue, checked under SpecQueue.                 *)
(***************************************************************************)
\* the state of the promise that goes with what the request function did
PromiseOf(fn) ==
  IF fn = "fulfilled" THEN "resolved" ELSE IF fn = "failed" THEN "rejected" ELSE "pending"

\* C11: the promises of the requests passed to queueRequest settle in the
\* order of submission (requests are numbered in that order), whatever each
\* request's latency and outcome; each promise is settled by its own
\* function's outcome only, and while requests wait a drain loop is active,
\* whatever the requests before them did.
C11_SubmissionOrder ==
  /\ settleOrder = [i \in 1..Len(settleOrder) |-> i]
  /\ \A r \in 1..MaxRequests : requests[r].promise = PromiseOf(requests[r].fn)
  /\ Len(requestQueue) > 0 => processing /\ Len(loops) = 1

\* three requests submitted before any settled; the first fails, the others
\* succeed
C11_Witness ==
  /\ settleOrder = <<1, 2, 3>>
  /\ requests[2].settledBefore = 0 /\ requests[3].settledBefore = 0
  /\ requests[1].promise = "rejected"
  /\ requests[2].promise = "resolved" /\ requests[3].promise = "resolved"

\* C12: at most one drain loop is active and at most one request function is
\* in flight, for every interleaving of queueRequest with the loop's awaits;
\* the flag is set exactly while a loop is active.
C12_OneInFlight ==
  /\ Len(loops) <= 1
  /\ Cardinality({r \in 1..MaxRequests : requests[r].fn = "pending"}) <= 1
  /\ processing <=> Len(loops) = 1

\* request 2 was submitted while request 1 was executing, request 3 during the
\* delay that followed request 1, and request 2 is in flight
C12_Witness ==
  /\ requests[2].during = "request" /\ requests[3].during = "delay"
  /\ requests[3].settledBefore = 1
  /\ requests[2].fn = "pending"
  /\ requestQueue = <<3>>

\* C13 (as stated): the remote operations of two public write calls are
\* never active at once: at most one of createOrder / updateProduct is
\* between its first attempt and its last (retries and backoff included).
C13_Original ==
  Cardinality({w \in Writers : writeCalls[w].pc \in {"remote", "backoff"}}) <= 1

\* C14: every request is invoked at most once and its promise settled at
\* most once; a request waits in the queue (once) until it is invoked, is
\* in flight in the drain loop from its invocation to its settlement, and is
\* settled with the outcome of that invocation.
C14_Lifecycle ==
  \A r \in 1..MaxRequests :
    LET q == requests[r]
        waiting == Cardinality({i \in 1..Len(requestQueue) : requestQueue[i] = r})
        running == Cardinality({i \in 1..Len(loops) :
                                  loops[i].req = r /\ loops[i].at = "request"})
    IN
    /\ q.invoked <= 1 /\ q.settled <= 1 /\ q.settled <= q.invoked
    /\ waiting = (IF q.submitted /\ q.invoked = 0 THEN 1 ELSE 0)
    /\ running = q.invoked - q.settled
    /\ q.invoked = 0 => q.fn = "none"
    /\ (q.invoked = 1 /\ q.settled = 0) => q.fn = "pending"
    /\ q.settled = 1 => q.fn \in {"fulfilled", "failed"}
    /\ q.promise = PromiseOf(q.fn)

\* three requests went through the queue, the second failed, the loop ended
C14_Witness ==
  /\ \A r \in 1..MaxRequests : requests[r].invoked = 1 /\ requests[r].settled = 1
  /\ requests[1].promise = "resolved" /\ requests[2].promise = "rejected"
  /\ requests[3].promise = "resolved"
  /\ ~processing /\ loops = <<>> /\ requestQueue = <<>>
(***************************************************************************)
(* Properties of the state store, checked under SpecStore.                 *)
(***************************************************************************)
LastSetState == storeLast.op = "setState"
\* the entries of the last setState, and the calls it made for a key
LastEntries == {storeLast.updates[i] : i \in 1..Len(storeLast.updates)}
CallsFor(key) == SelectSeq(storeLast.notified, LAMBDA c : c.key = key)
\* the value given is the one the slot held: the same primitive, or the very
\* object
GivenIdentical(e) ==
  IF e.value.obj THEN e.same
  ELSE ~storeLast.before[e.key].obj /\ storeLast.before[e.key].c = e.value.c
\* the value given has the content of the one the slot held
GivenEqual(e) == e.value = storeLast.before[e.key]
\* the calls due to the subscribers of the keys the last setState changed
LastDue ==
  DueCalls(subscribers, ChangesOf(storeLast.before, storeLast.updates),
           Committed(storeLast.before, ChangesOf(storeLast.before, storeLast.updates)),
           storeLast.entries)
\* the last setState left an entry for its own transition at the end of the
\* history
LastAppended ==
  /\ Len(history) > 0
  /\ history[Len(history)] = HistoryEntry(storeLast.before, state)

\* C16 (as stated): a setState that gives slot x a value equal to the one it
\* holds notifies no subscriber of x, and the entry it appends has equal old
\* and new snapshots for x.
C16_Original ==
  LastSetState =>
    \A e \in LastEntries :
      GivenEqual(e) =>
        /\ CallsFor(e.key) = <<>>
        /\ ~storeLast.threw =>
             history[Len(history)].oldState[e.key] = history[Len(history)].newState[e.key]

\* C16: a setState that gives slot x the identical value (the same
\* primitive, or the very object the slot holds) leaves x as it was, notifies
\* no subscriber of x, and the entry it appends has equal old and new
\* snapshots for x.
C16_NoOpIdentical ==
  LastSetState =>
    \A e \in LastEntries :
      GivenIdentical(e) =>
        /\ state[e.key] = storeLast.before[e.key]
        /\ CallsFor(e.key) = <<>>
        /\ ~storeLast.threw =>
             /\ LastAppended
             /\ history[Len(history)].oldState[e.key]
                  = history[Len(history)].newState[e.key]

\* the cart is given the array it holds while its subscriber is registered,
\* and the same setState changes currentUser and notifies its subscriber
C16_Witness ==
  /\ LastSetState
  /\ \E e \in LastEntries : e.key = "cart" /\ e.same
  /\ Len(subscribers["cart"]) = 1
  /\ Len(CallsFor("currentUser")) = 1
  /\ CallsFor("cart") = <<>>
  /\ ~storeLast.threw

\* C17 (as stated): a setState invokes exactly the callbacks subscribed to
\* the keys it changed, once each, in registration order within a key, with
\* (newValue, oldValue).
C17_Original == LastSetState => storeLast.notified = LastDue

\* C18 (as stated): when a subscriber throws during a setState, nothing
\* leaves setState, every call due is made, the commit stands and the history
\* entry is appended.
C18_Original ==
  (LastSetState /\ \E i \in 1..Len(storeLast.notified) :
                     storeLast.notified[i].cb # "returns") =>
    /\ ~storeLast.threw
    /\ storeLast.notified = LastDue
    /\ state = Committed(storeLast.before, ChangesOf(storeLast.before, storeLast.updates))
    /\ LastAppended

\* C19 (as stated): when a middleware throws during a setState, nothing
\* leaves setState, every middleware is invoked in order, the commit stands,
\* the subscribers of the changed keys are notified and the history entry is
\* appended.
C19_Original ==
  (LastSetState /\ \E i \in 1..Len(storeLast.ran) : storeLast.ran[i] # "returns") =>
    /\ ~storeLast.threw
    /\ storeLast.ran = middleware
    /\ state = Committed(storeLast.before, ChangesOf(storeLast.before, storeLast.updates))
    /\ storeLast.notified = LastDue
    /\ LastAppended

\* C20 (as stated): every setState appends exactly one entry holding the
\* document before and after it, the oldest entry being dropped when the
\* history would exceed maxHistorySize, and the history never exceeds it.
C20_Original ==
  [][/\ Len(history') <= maxHistorySize
     /\ storeLast'.op = "setState" =>
          history' = SaveToHistory(history, state, state')]_vars

\* C21 (as stated): whatever a reader does to the value getState returned,
\* with or without a key, the document is as it was before the call.
C21_Original == storeLast.op = "getState" => state = storeLast.before

\* the entry the last undo restored from: the last entry of the history, once
\* the entry after it was popped
RestoredFrom == history[Len(history)]
\* the calls notify makes for a key after the last undo
RestoredCalls(key) ==
  [i \in 1..Len(subscribers[key]) |->
     [key |-> key, cb |-> subscribers[key][i], new |-> state[key],
      old |-> RestoredFrom.oldState[key], seen |-> state, entries |-> Len(history)]]

\* C22: an undo on a history of fewer than two entries returns false,
\* leaves the document, the history, the subscribers and the middleware as
\* they were, and notifies nobody.
C22_UndoTooShort ==
  [][(storeLast'.op = "undo" /\ Len(history) < 2) =>
       /\ storeLast'.ret = "false"
       /\ ~storeLast'.threw
       /\ storeLast'.notified = <<>>
       /\ UNCHANGED <<state, history, subscribers, middleware>>]_vars

\* an undo returned false on a history of one entry that recorded a change
\* of currentUser, a subscriber of currentUser being registered
C22_Witness ==
  /\ storeLast.op = "undo" /\ storeLast.ret = "false"
  /\ Len(history) = 1
  /\ history[1].oldState["currentUser"] # history[1].newState["currentUser"]
  /\ Len(subscribers["currentUser"]) > 0

\* C23 (as stated): an undo on a history of two entries or more returns
\* true, removes the last entry and nothing else, and leaves the document
\* equal to the new snapshot of the former second-to-last entry, which is
\* the old snapshot of the entry removed.
C23_Original ==
  [][(storeLast'.op = "undo" /\ Len(history) >= 2) =>
       /\ storeLast'.ret = "true"
       /\ history' = SubSeq(history, 1, Len(history) - 1)
       /\ state' = history[Len(history) - 1].newState
       /\ state' = history[Len(history)].oldState]_vars

\* C24: an undo that returned true has notified, after the document was
\* restored and the last entry popped, the subscribers of every key of the
\* document in the order of its keys, changed or not, each with (the restored
\* value of the key, its value in the old snapshot of the entry restored
\* from).
C24_UndoNotifiesAll ==
  (storeLast.op = "undo" /\ storeLast.ret = "true") =>
    /\ state = RestoredFrom.newState
    /\ Len(history) = storeLast.entries - 1
    /\ storeLast.notified =
         RestoredCalls(SlotOrder[1]) \o RestoredCalls(SlotOrder[2])
         \o RestoredCalls(SlotOrder[3]) \o RestoredCalls(SlotOrder[4])

\* an undo notified the subscriber of a key whose value it left as it was
\* and the subscriber of a key whose value it restored
C24_Witness ==
  /\ storeLast.op = "undo" /\ storeLast.ret = "true"
  /\ Len(storeLast.notified) = 2
  /\ \E i \in 1..2 : storeLast.notified[i].new = storeLast.notified[i].old
  /\ \E i \in 1..2 : /\ storeLast.notified[i].new # storeLast.notified[i].old
                      /\ storeLast.notified[i].new # storeLast.before[storeLast.notified[i].key]

\* the last call of updateNestedState: its path, its target and the value
\* the document held at the path before it
LastNested == storeLast.updates[1]
LastNestedOld == GetNestedValue(storeLast.before, PathKeys(LastNested.key))
\* oldValue === value: the same primitive, or the very object held at the path
GivenSameValue ==
  IF LastNested.value.obj THEN LastNested.same
  ELSE ~LastNestedOld.obj /\ LastNestedOld.c = LastNested.value.c

\* C25 (as stated): an updateNestedState whose target equals the value at the
\* path leaves the document and the history as they were, runs no middleware
\* and notifies nobody.
C25_Original ==
  [][(storeLast'.op = "updateNestedState" /\ LastNestedOld' = LastNested'.value) =>
       /\ UNCHANGED <<state, history>>
       /\ storeLast'.ran = <<>>
       /\ storeLast'.notified = <<>>]_vars

\* C25 (amended): an updateNestedState whose target is identical (===) to the
\* value at the path, the same primitive or the very object the document
\* holds there, leaves the document and the history as they were, runs no
\* middleware and notifies nobody.
C25_NoOpIdentical ==
  [][(storeLast'.op = "updateNestedState" /\ GivenSameValue') =>
       /\ UNCHANGED <<state, history>>
       /\ storeLast'.ran = <<>>
       /\ storeLast'.notified = <<>>
       /\ ~storeLast'.threw]_vars

\* updateNestedState returned at once for a target identical to the value at
\* the path, a middleware and a subscriber of the slot being registered
C25_Witness ==
  /\ storeLast.op = "updateNestedState" /\ GivenSameValue
  /\ LastNested.key = "ui.loading"
  /\ Len(middleware) > 0 /\ Len(subscribers["ui"]) > 0
  /\ storeLast.ran = <<>> /\ storeLast.notified = <<>>
  /\ state = storeLast.before

\* C26 (as stated): an updateNestedState whose target differs from the value
\* at the path leaves the target at the path, every other slot equal to what
\* it was, has run the middleware and has appended one history entry.
C26_Original ==
  (storeLast.op = "updateNestedState" /\ LastNestedOld # LastNested.value) =>
    /\ GetNestedValue(state, PathKeys(LastNested.key)) = LastNested.value
    /\ \A k \in SlotSet \ {PathKeys(LastNested.key)[1]} : state[k] = storeLast.before[k]
    /\ storeLast.ran = middleware
    /\ ~storeLast.threw
    /\ Len(history) > 0
    /\ history[Len(history)] = HistoryEntry(storeLast.before, state)

\* C27 (as stated): a loadFromStorage of a snapshot older than a day returns
\* false and leaves document, history and subscribers as they were, calling
\* no observer; one of a snapshot at most a day old applies it through
\* setState and returns true.
C27_Original ==
  [][(storeLast'.op = "loadFromStorage" /\ localStorage.present) =>
       IF now - localStorage.timestamp > maxSnapshotAge
         THEN /\ storeLast'.ret = "false"
              /\ UNCHANGED <<state, history, subscribers>>
              /\ storeLast'.ran = <<>> /\ storeLast'.notified = <<>>
         ELSE /\ storeLast'.ret = "true"
              /\ state' = Committed(state, ChangesOf(state, LoadUpdates(state, localStorage)))
              /\ history' = SaveToHistory(history, state, state')]_vars

\* C28: a lookup of execute on a durable tier that is unavailable, or whose
\* read fails, finds nothing and is not a cache hit, so the operation is
\* invoked; a set of execute on such a tier returns false and leaves both
\* tiers as they were, and execute resolves with the operation's result as
\* the operation gave it.
C28_DurableDegraded ==
  /\ call.degraded =>
       /\ call.cached = "null"
       /\ result.fromCache # "true"
       /\ (pc = "done" /\ call.retries >= 1) => calls >= 1
  /\ (cacheWrite.called /\ cacheWrite.degraded) =>
       /\ cacheWrite.ret = "false"
       /\ cacheWrite.untouched
       /\ pc = "done"
       /\ result = Resolved(cacheWrite.value, NoError, "undefined", FALSE)

\* an execute whose durable read failed on an entry the store held, and
\* whose durable write failed too, resolved with the operation's data
C28_Witness ==
  /\ pc = "done" /\ call.degraded /\ calls = 1
  /\ cacheWrite.called /\ cacheWrite.degraded
  /\ db[call.cacheKey] # NoItem /\ ~Expired(db[call.cacheKey], now)
  /\ result.data = cacheWrite.value

\* C29: a request function is invoked either by a queueRequest made while no
\* drain loop is active, or by the single drain loop at the end of the delay
\* that followed the settlement of the request it took before; no step
\* invokes a function while a loop stands at its request or inside its delay.
C29_DelayBeforeNext ==
  [][\A r \in 1..MaxRequests :
       requests'[r].invoked > requests[r].invoked =>
         \/ Len(loops) = 0
         \/ /\ Len(loops) = 1 /\ Len(loops') = 1
            /\ loops[1].at = "delay"
            /\ requests[loops[1].req].settled = 1
            /\ loops'[1].req = r /\ loops[1].req # r
            /\ Head(requestQueue) = r]_vars

\* request 2 was queued while request 1 was executing, request 1 settled,
\* the delay ended and request 2 is in flight
C29_Witness ==
  /\ requests[2].during = "request" /\ requests[2].settledBefore = 0
  /\ settleOrder = <<1>>
  /\ requests[2].fn = "pending"
  /\ Len(loops) = 1 /\ loops[1] = [req |-> 2, at |-> "request"]

\* C30 (as stated): when updateProduct succeeds, the fast tier returns no
\* value for the key of the product and none for 'products_all'.
C30_Original ==
  [][(/\ writeCalls["updateProduct"].pc = "remote"
      /\ writeCalls'["updateProduct"].pc = "done"
      /\ writeCalls'["updateProduct"].result.settled = "resolved"
      /\ Truthy(writeCalls'["updateProduct"].result.data)) =>
       \A key \in WriteKeys : GetMemoryValue(memoryCache', key, now') = "null"]_vars

\* C31 (as stated): a sweep on an open store whose transaction succeeds
\* removes the fast-tier entries whose age exceeds their ttl and the durable
\* entries whose age exceeds the horizon, and leaves every other entry as it
\* was.
C31_Original ==
  [][(last'.op = "cleanup" /\ last'.ok /\ dbStatus = "open") =>
       /\ memoryCache' = SelectSeq(memoryCache,
                                   LAMBDA e : ~(now - e.timestamp > e.ttl))
       /\ \A k \in DOMAIN db :
            db'[k] = IF db[k] # NoItem /\ now - db[k].timestamp > sweepHorizon
                       THEN NoItem ELSE db[k]]_vars

\* C31 (amended): a sweep removes the fast-tier entries whose age exceeds
\* their ttl and, when the store is open and the transaction succeeds, the
\* durable entries whose age is at least the horizon, whatever their ttl;
\* every other entry stays as it was, in the order it had; a sweep on a store
\* that is not open or whose transaction fails leaves the durable tier as it
\* was.
C31_Sweep ==
  [][last'.op = "cleanup" =>
       /\ memoryCache' = SelectSeq(memoryCache,
                                   LAMBDA e : ~(now - e.timestamp > e.ttl))
       /\ \A k \in DOMAIN db :
            db'[k] = IF /\ dbStatus = "open" /\ last'.ok
                        /\ db[k] # NoItem /\ now - db[k].timestamp >= sweepHorizon
                       THEN NoItem ELSE db[k]]_vars

\* a sweep removed a durable entry exactly as old as the horizon and still
\* within its ttl
C31_Witness ==
  /\ last.op = "cleanup" /\ last.ok /\ dbStatus = "open"
  /\ \E e \in last.swept :
       /\ e.key \in DBKeys /\ db[e.key] = NoItem
       /\ now - e.timestamp = sweepHorizon
       /\ now - e.timestamp <= e.ttl

\* C32: in a setState call no subscriber is invoked before a middleware, and
\* every observer invoked finds in the document every key of the update
\* already written; a call that returns has invoked every middleware and
\* has made every notification due, and the document is the one they saw.
C32_MiddlewareFirst ==
  storeLast.op = "setState" =>
    LET order == storeLast.order IN
    /\ \A i \in 1..Len(order), j \in 1..Len(order) :
         (order[i].kind = "subscriber" /\ order[j].kind = "middleware") => j < i
    /\ (\E i \in 1..Len(order) : order[i].kind = "subscriber") =>
         Len(SelectSeq(order, LAMBDA e : e.kind = "middleware")) = Len(middleware)
    /\ \A i \in 1..Len(order) :
         /\ order[i].seen = state
         /\ \A u \in 1..Len(storeLast.updates) :
              order[i].seen[storeLast.updates[u].key] = storeLast.updates[u].value
    /\ ~storeLast.threw =>
         /\ storeLast.ran = middleware
         /\ \A u \in 1..Len(storeLast.updates) :
              LET key == storeLast.updates[u].key
                  changed == IF storeLast.updates[u].value.obj
                               THEN ~storeLast.updates[u].same
                               ELSE storeLast.before[key] # storeLast.updates[u].value
              IN changed =>
                   \A c \in 1..Len(subscribers[key]) :
                     \E i \in 1..Len(order) :
                       order[i].kind = "subscriber" /\ order[i].cb = subscribers[key][c]

\* a setState that changed two keys invoked a middleware, then a subscriber,
\* and returned
C32_Witness ==
  /\ storeLast.op = "setState" /\ ~storeLast.threw
  /\ Len(storeLast.updates) = 2
  /\ \A k \in {"currentUser", "cart"} : \E u \in 1..2 : storeLast.updates[u].key = k
  /\ state["currentUser"] # storeLast.before["currentUser"]
  /\ ~storeLast.updates[2].same
  /\ Len(storeLast.order) = 2
  /\ storeLast.order[1].kind = "middleware" /\ storeLast.order[2].kind = "subscriber"

\* a step of the execute call, as opposed to a step of another caller
ExecuteStep == pc' # pc \/ calls' # calls
\* the entry is the call's own, on the tier it reads, and had expired
LazilyRemoved(entry, c) ==
  /\ c.useCache /\ entry.key = c.cacheKey
  /\ now - entry.timestamp > entry.ttl

\* C33: a step of execute leaves both tiers as they were when the call does
\* not use the cache and when the step is an attempt that fails, a delay or
\* the return; the first step of a call that uses the cache removes at most
\* the entry of its key on the tier it reads, and only if that entry had
\* expired.
C33_FailedLeavesCache ==
  [][ExecuteStep =>
       /\ (pc # "idle" /\ ~call.useCache) => UNCHANGED <<memoryCache, db>>
       /\ (pc = "attempt" /\ fails' > fails) => UNCHANGED <<memoryCache, db>>
       /\ pc \in {"delay", "done"} => UNCHANGED <<memoryCache, db>>
       /\ pc = "idle" =>
            /\ ~call'.useCache => UNCHANGED <<memoryCache, db>>
            /\ memoryCache' =
                 SelectSeq(memoryCache,
                           LAMBDA e : ~(~call'.useDB /\ LazilyRemoved(e, call')))
            /\ \A k \in DOMAIN db :
                 db'[k] = db[k]
                 \/ (db'[k] = NoItem /\ call'.useDB /\ LazilyRemoved(db[k], call'))]_vars

\* every attempt of a call that uses the cache failed, and the tier holds
\* for its key the entry another caller stored while the call was in flight
C33_Witness ==
  /\ AllAttemptsFailed /\ call.retries >= 2
  /\ call.useCache /\ call.cacheKey # NoKey /\ ~call.useDB
  /\ MapGet(memoryCache, call.cacheKey) = Item(call.cacheKey, "v1", now, MaxTTL)

\* C34 (as stated): a set of a key the full fast tier already holds leaves
\* every key of the tier present, and every entry but that key's as it was.
C34_Original ==
  [][(/\ last'.op = "set" /\ ~last'.useDB
      /\ Len(memoryCache) = capacity /\ MapHas(memoryCache, last'.key)) =>
       /\ Len(memoryCache') = capacity
       /\ \A i \in 1..Len(memoryCache) :
            /\ MapHas(memoryCache', memoryCache[i].key)
            /\ memoryCache[i].key # last'.key =>
                 MapGet(memoryCache', memoryCache[i].key) = memoryCache[i]]_vars

\* C35 (as stated): after a set of a key the fast tier already holds, that
\* key is the last of the tier in eviction order.
C35_Original ==
  [][(last'.op = "set" /\ ~last'.useDB /\ MapHas(memoryCache, last'.key)) =>
       memoryCache'[Len(memoryCache')].key = last'.key]_vars

\* C36 (as stated): an updateNestedState on a path under a slot notifies the
\* subscribers of that slot only.
C36_Original ==
  storeLast.op = "updateNestedState" =>
    \A i \in 1..Len(storeLast.notified) :
      storeLast.notified[i].key = PathKeys(LastNested.key)[1]

\* C37 (as stated): when a key changes, every callback subscribed to it
\* that does not unsubscribe is invoked exactly once, whatever the other
\* callbacks of the key do when invoked.
C37_Original ==
  [][storeLast'.op = "setState" =>
       \A k \in SlotSet :
         state'[k] # state[k] =>
           Len(SelectSeq(storeLast'.notified,
                         LAMBDA c : c.key = k /\ c.cb = "returns"))
           = Len(SelectSeq(subscribers[k], LAMBDA cb : cb = "returns"))]_vars

\* C38 (as stated): after any sequence of setState and undo calls, those
\* issued by a subscriber during another setState included, the history is
\* a chain: the newState of each entry equals the oldState of the next, and
\* the newState of the last entry equals the live document.
C38_Original ==
  /\ \A i \in 1..(Len(history) - 1) : history[i].newState = history[i + 1].oldState
  /\ history # <<>> => history[Len(history)].newState = state

\* C39: no queued write is stranded.  Provided every request function
\* settles, every request enqueued is eventually taken from the queue,
\* invoked once and its promise settled, whenever it was enqueued; and
\* whenever the loop has stopped (processing is false) the queue is empty.
C39_NoStranded ==
  /\ \A r \in 1..MaxRequests :
       requests[r].submitted
         ~> (requests[r].invoked = 1 /\ requests[r].promise # "pending"
             /\ \A i \in 1..Len(requestQueue) : requestQueue[i] # r)
  /\ [](~processing => requestQueue = <<>>)
\* a request enqueued during the delay that followed the last item of the
\* queue (every earlier request settled, none waiting) has been settled and
\* the loop has stopped
C39_Witness ==
  \E r \in 2..MaxRequests :
    /\ requests[r].submitted /\ requests[r].during = "delay"
    /\ requests[r].settledBefore = r - 1
    /\ requests[r].invoked = 1 /\ requests[r].promise # "pending"
    /\ ~processing /\ requestQueue = <<>>

\* C40 (as stated): with a retry budget of zero or less and a cache miss,
\* execute does not invoke the operation and returns an error result: data
\* is null and the error field is a non-null error descriptor.
C40_Original ==
  (Settled /\ call.retries <= 0 /\ result.fromCache # "true") =>
    calls = 0 /\ ErrorResult
=============================================================================
